---------------------------- MODULE Spec2Model ----------------------------
(***************************************************************************)
(* Encryption-identifier derivation of the seal / walrus example scripts.  *)
(*                                                                         *)
(* JavaScript strings are sequences of one-character strings, Uint8Arrays  *)
(* are sequences of integers in 0..255.  A call that may throw returns a   *)
(* record [err, bytes]; err = TRUE is the thrown Error.                    *)
(*                                                                         *)
(* fromHex and toHex are imported from @mysten/sui/utils (they are the     *)
(* @mysten/bcs helpers); they are modelled statement by statement from     *)
(* that library:                                                           *)
(*   fromHex(hexStr):                                                      *)
(*     normalized = hexStr.startsWith('0x') ? hexStr.slice(2) : hexStr     *)
(*     padded = normalized.length % 2 === 0 ? normalized : `0${normalized}`*)
(*     intArr = padded.match(/[0-9a-fA-F]{2}/g)?.map(parseInt 16) ?? []    *)
(*     if (intArr.length !== padded.length / 2) throw Error(Invalid hex)   *)
(*   toHex(bytes):                                                         *)
(*     bytes.reduce((s, b) => s + b.toString(16).padStart(2, '0'), '')     *)
(***************************************************************************)
EXTENDS Integers, Sequences, FiniteSets, TLC

VARIABLES
    pc,         \* position of the script / caller being modelled
    sender,     \* computeKeyId: the sender argument (a string)
    nonceRef,   \* computeKeyId: the nonce argument (a reference into heap)
    heap,       \* the Uint8Arrays that exist, by reference
    call,       \* outcome of computeKeyId(sender, nonce)
    call0x,     \* outcome of computeKeyId("0x" + sender, nonce)
    inline,     \* outcome of the inline derivation on (sender, nonce)
    address,    \* keypair.toSuiAddress() of the address-bound upload
    allowlistId,\* selectedCap.allowlist_id of the allowlist upload
    nonce,      \* crypto.getRandomValues(...) of a run
    nonce2,     \* the nonce of a second run
    ids,        \* the encryption ids derived so far, by derivation
    object,     \* decrypt_sui_data.ts: what getObject answers for objectId
    pd,         \* decrypt_sui_data.ts: the locals of decryptPData
    up,         \* upload_walrus.ts: the locals of main
    dl,         \* download_walrus.ts: the locals of main, downloadAndDecrypt
    walrus,     \* the blobs the Walrus aggregator can serve
    files,      \* tmp/walrus: upload_results.json and decrypted/*.hex
    kd,         \* down_encrypted_key.ts: the locals of main
    al,         \* the allowlist upload: the locals of main
    chain,      \* the allowlist upload: what the chain holds and answers
    env,        \* deploy.sh: ../.env.public and the run of the script
    rs,         \* the inputs of the two main functions and the id they resolve
    ad,         \* the add-address script: the locals of main
    fx,         \* downloadBlobFromWalrus: the request, its timers, its result
    xt          \* extractBlobInfo: the argument and the outcome of a call

keyIdVars == <<sender, nonceRef, heap, call, call0x, inline>>
bindVars == <<address, allowlistId, nonce, nonce2, ids>>
pdataVars == <<object, pd>>
walrusVars == <<up, dl, walrus, files>>
keyDlVars == <<kd>>
allowVars == <<al, chain>>
deployVars == <<env>>
resolveVars == <<rs>>
addVars == <<ad>>
fetchVars == <<fx>>
extractVars == <<xt>>
scriptVars == <<keyDlVars, allowVars, deployVars, resolveVars, addVars,
               fetchVars, extractVars>>

vars == <<pc, keyIdVars, bindVars, pdataVars, walrusVars, scriptVars>>

----------------------------------------------------------------------------
(* Bounds of the model *)

MaxSenderLen == 4
MaxNonceLen == 2
MaxAddrBytes == 2
MaxAggregators == 2
MaxEnvLines == 2
MaxCaps == 3
MaxRuns == 2
MaxResults == 2

\* characters the sender strings are drawn from: the two characters of the
\* textual prefix, a lower-case and an upper-case hex digit
Chars == {"0", "x", "a", "B"}
\* byte values the nonces are drawn from (0x0a needs the padding of toHex)
ByteVals == {10, 171}

SeqsUpTo(S, n) == UNION {[1..k -> S] : k \in 0..n}

----------------------------------------------------------------------------
(* @mysten/sui/utils *)

LowerHex == <<"0","1","2","3","4","5","6","7","8","9","a","b","c","d","e","f">>
UpperHex == <<"0","1","2","3","4","5","6","7","8","9","A","B","C","D","E","F">>

\* the character class [0-9a-fA-F]
IsHexChar(c) == \E i \in 1..16 : LowerHex[i] = c \/ UpperHex[i] = c

\* parseInt(c, 16) of one hex digit
HexVal(c) == (CHOOSE i \in 1..16 : LowerHex[i] = c \/ UpperHex[i] = c) - 1

startsWith0x(s) == Len(s) >= 2 /\ s[1] = "0" /\ s[2] = "x"

\* a slice that drops one character instead of two
slice2_DropsOne(s) == SubSeq(s, 2, Len(s))

\* s.slice(2)
slice2(s) == SubSeq(s, 3, Len(s))

\* s.startsWith('0x') ? s.slice(2) : s
strip0x(s) == IF startsWith0x(s) THEN slice2(s) ELSE s

\* padded.match(/[0-9a-fA-F]{2}/g).map(b => parseInt(b, 16)): the global match
\* scans left to right, takes two hex digits where it finds them and moves
\* on by one character where it does not
RECURSIVE matchHexPairs(_, _)
matchHexPairs(s, i) ==
    IF i + 1 > Len(s) THEN <<>>
    ELSE IF IsHexChar(s[i]) /\ IsHexChar(s[i + 1])
         THEN <<16 * HexVal(s[i]) + HexVal(s[i + 1])>> \o matchHexPairs(s, i + 2)
         ELSE matchHexPairs(s, i + 1)

Thrown == [err |-> TRUE, bytes |-> <<>>]
Returned(b) == [err |-> FALSE, bytes |-> b]

fromHex(hexStr) ==
    LET normalized == strip0x(hexStr)
        padded == IF Len(normalized) % 2 = 0 THEN normalized
                  ELSE <<"0">> \o normalized
        intArr == matchHexPairs(padded, 1)
    IN  IF Len(intArr) # Len(padded) \div 2 THEN Thrown ELSE Returned(intArr)

\* byte.toString(16)
toString16(b) ==
    IF b < 16 THEN <<LowerHex[b + 1]>>
    ELSE <<LowerHex[(b \div 16) + 1], LowerHex[(b % 16) + 1]>>

\* str.padStart(2, '0')
padStart2(s) == IF Len(s) < 2 THEN <<"0">> \o s ELSE s

RECURSIVE toHex(_)
toHex(bytes) ==
    IF bytes = <<>> THEN <<>>
    ELSE toHex(SubSeq(bytes, 1, Len(bytes) - 1))
            \o padStart2(toString16(bytes[Len(bytes)]))

----------------------------------------------------------------------------
(* Uint8Array *)

\* new Uint8Array(n): a fresh zero-filled array under a reference no
\* existing array has
NewUint8Array(h, n) ==
    [heap |-> Append(h, [i \in 1..n |-> 0]), ref |-> Len(h) + 1]

\* a set that ignores its offset
TypedArraySet_NoOffset(target, source, offset) ==
    [i \in 1..Len(target) |->
        IF i <= Len(source) THEN source[i] ELSE target[i]]

\* a set that stops one element short of the source's end
TypedArraySet_DropsLast(target, source, offset) ==
    [i \in 1..Len(target) |->
        IF i > offset /\ i < offset + Len(source)
        THEN source[i - offset] ELSE target[i]]

\* target.set(source, offset), offset + source.length <= target.length
TypedArraySet(target, source, offset) ==
    [i \in 1..Len(target) |->
        IF i > offset /\ i <= offset + Len(source)
        THEN source[i - offset] ELSE target[i]]

----------------------------------------------------------------------------
(* computeKeyId *)

\* a computeKeyId that hands back the nonce array itself when the sender
\* decodes to no bytes
computeKeyIdOn_ReturnsNonce(h, senderStr, nRef) ==
    LET senderHex == IF startsWith0x(senderStr) THEN slice2(senderStr)
                     ELSE senderStr
        senderBytes == fromHex(senderHex)
    IN  IF senderBytes.err
        THEN [heap |-> h, ref |-> 0, err |-> TRUE]
        ELSE IF senderBytes.bytes = <<>>
        THEN [heap |-> h, ref |-> nRef, err |-> FALSE]
        ELSE LET keyId == NewUint8Array(h, Len(senderBytes.bytes) + Len(h[nRef]))
                 h1 == [keyId.heap EXCEPT ![keyId.ref] =
                            TypedArraySet(@, senderBytes.bytes, 0)]
                 h2 == [h1 EXCEPT ![keyId.ref] =
                            TypedArraySet(@, h1[nRef], Len(senderBytes.bytes))]
             IN  [heap |-> h2, ref |-> keyId.ref, err |-> FALSE]

\* computeKeyId(sender, nonce) run on heap h, nonce being the array h[nRef]
computeKeyIdOn(h, senderStr, nRef) ==
    LET senderHex == IF startsWith0x(senderStr) THEN slice2(senderStr)
                     ELSE senderStr
        senderBytes == fromHex(senderHex)
    IN  IF senderBytes.err
        THEN [heap |-> h, ref |-> 0, err |-> TRUE]
        ELSE LET keyId == NewUint8Array(h, Len(senderBytes.bytes) + Len(h[nRef]))
                 h1 == [keyId.heap EXCEPT ![keyId.ref] =
                            TypedArraySet(@, senderBytes.bytes, 0)]
                 h2 == [h1 EXCEPT ![keyId.ref] =
                            TypedArraySet(@, h1[nRef], Len(senderBytes.bytes))]
             IN  [heap |-> h2, ref |-> keyId.ref, err |-> FALSE]

\* the value computeKeyId returns for a nonce with the given bytes
computeKeyId(senderStr, nonceBytes) ==
    LET r == computeKeyIdOn(<<nonceBytes>>, senderStr, 1)
    IN  IF r.err THEN Thrown ELSE Returned(r.heap[r.ref])

----------------------------------------------------------------------------
(* The derivations of the two upload scripts *)

ThrownId == [err |-> TRUE, hex |-> <<>>]
NoId == [err |-> FALSE, hex |-> <<"?">>]

\* address-bound:
\*   const keyId = computeKeyId(keypair.toSuiAddress(), nonce);
\*   const encryptionId = toHex(keyId);
addressEncryptionId(addr, n) ==
    LET keyId == computeKeyId(addr, n)
    IN  IF keyId.err THEN ThrownId
        ELSE [err |-> FALSE, hex |-> toHex(keyId.bytes)]

\* an inline derivation that spreads the nonce first
policyEncryptionId_NonceFirst(alId, n) ==
    LET policyObjectBytes ==
            fromHex(IF startsWith0x(alId) THEN slice2(alId) ELSE alId)
    IN  IF policyObjectBytes.err THEN ThrownId
        ELSE [err |-> FALSE, hex |-> toHex(n \o policyObjectBytes.bytes)]

\* policy-bound:
\*   const policyObjectBytes = fromHex(allowlistId.startsWith('0x') ? ...);
\*   const encryptionId = toHex(new Uint8Array([...policyObjectBytes, ...nonce]));
policyEncryptionId(alId, n) ==
    LET policyObjectBytes ==
            fromHex(IF startsWith0x(alId) THEN slice2(alId) ELSE alId)
    IN  IF policyObjectBytes.err THEN ThrownId
        ELSE [err |-> FALSE, hex |-> toHex(policyObjectBytes.bytes \o n)]

----------------------------------------------------------------------------
(* @mysten/seal, as the scripts use it *)

\* sealClient.encrypt({ threshold, packageId, id, data }): the encrypted
\* object carries the identifier, decoded from the hex string id, in its
\* header
SealEncrypt(idHex, data) ==
    [kind |-> "EncryptedObject", id |-> fromHex(idHex).bytes, data |-> data]

----------------------------------------------------------------------------
(* decrypt_sui_data.ts: decryptPData *)

NoObject == [kind |-> "none"]

NoLocals ==
    [creator |-> <<>>, storedNonce |-> <<>>, keyId |-> <<>>,
     encryptionId |-> <<>>, tx |-> <<>>, txBytes |-> <<>>,
     decryptedData |-> <<>>, exit |-> "running"]

PDataIdle ==
    /\ object = NoObject
    /\ pd = NoLocals

----------------------------------------------------------------------------
(* upload_walrus.ts and download_walrus.ts: state *)

Absent == [kind |-> "absent"]

NoUpload ==
    [dataBytes |-> <<>>, nonce |-> <<>>, keyId |-> <<>>,
     encryptionId |-> <<>>, printed |-> Absent, encryptCall |-> Absent,
     encryptedData |-> Absent, response |-> Absent, blobInfo |-> Absent,
     exit |-> "notRun"]

NoDownload ==
    [argv |-> Absent, blobId |-> Absent, from |-> "", encryptedData |-> Absent,
     parsedId |-> Absent, keyId |-> <<>>, tx |-> Absent, txBytes |-> Absent,
     decryptedData |-> <<>>, fetch |-> Absent, thrown |-> "", error |-> "",
     steps |-> <<>>, exit |-> "notRun"]

NoFiles ==
    [uploadResults |-> Absent, decrypted |-> Absent, encrypted |-> Absent,
     secretKeyResults |-> Absent, addAddressResults |-> Absent]

WalrusIdle ==
    /\ up = NoUpload
    /\ dl = NoDownload
    /\ walrus = {}
    /\ files = NoFiles

----------------------------------------------------------------------------
(* down_encrypted_key.ts, the allowlist upload and deploy.sh: state *)

NoKeyDownload ==
    [blobId |-> Absent, aggregators |-> <<>>, contacted |-> <<>>,
     answers |-> <<>>, downloadResult |-> Absent, error |-> "",
     steps |-> <<>>, exit |-> "notRun"]

KeyDownloadIdle == kd = NoKeyDownload

NoAllow ==
    [dataBytes |-> <<>>, allCaps |-> <<>>, pending |-> {}, settled |-> <<>>,
     capInfos |-> <<>>, shown |-> <<>>, input |-> Absent,
     selectedCap |-> Absent, nonce |-> <<>>, encryptionId |-> <<>>,
     encryptCall |-> Absent, encryptedData |-> Absent, response |-> Absent,
     blobInfo |-> Absent,
     tx |-> Absent, result |-> Absent, printed |-> Absent, error |-> "",
     steps |-> <<>>, exit |-> "notRun"]

NoChain == [failing |-> {}, published |-> {}]

AllowIdle ==
    /\ al = NoAllow
    /\ chain = NoChain

NoDeploy ==
    [file |-> Absent, osType |-> "", output |-> Absent, packageId |-> "",
     runs |-> 0, exit |-> "notRun"]

DeployIdle == env = NoDeploy

NoResult == [value |-> Absent, from |-> "", consulted |-> <<>>, exit |-> ""]

NoResolve ==
    [argv |-> Absent, envObjectId |-> Absent, uploadResults |-> Absent,
     input |-> Absent, objectId |-> NoResult, blobId |-> NoResult]

ResolveIdle == rs = NoResolve

\* the add-address script before it runs
NoAdd ==
    [argv |-> Absent, input |-> Absent, addressToAdd |-> Absent,
     trimmedAddress |-> Absent, allCaps |-> <<>>, selection |-> Absent,
     selectedCap |-> Absent, beforeInfo |-> Absent, confirm |-> Absent,
     tx |-> Absent, result |-> Absent, existing |-> Absent,
     called |-> Absent, error |-> "", steps |-> <<>>, exit |-> "notRun"]

AddIdle == ad = NoAdd

\* downloadBlobFromWalrus before it is called
NoFetch ==
    [variant |-> "", count |-> 0, index |-> 0, behaviour |-> "",
     request |-> "none", timers |-> {}, tried |-> <<>>, returned |-> Absent,
     steps |-> <<>>]

FetchIdle == fx = NoFetch

\* extractBlobInfo before it is called
NoExtract == [storageInfo |-> Absent, blobInfo |-> Absent]

ExtractIdle == xt = NoExtract

ScriptsIdle ==
    /\ KeyDownloadIdle
    /\ AllowIdle
    /\ DeployIdle
    /\ ResolveIdle
    /\ AddIdle
    /\ FetchIdle
    /\ ExtractIdle

----------------------------------------------------------------------------
(* A caller of computeKeyId: any sender string, any nonce *)

\* no call made yet (0 is no reference)
NoCall == [ref |-> 0, err |-> FALSE]

BindIdle ==
    /\ address = <<>>
    /\ allowlistId = <<>>
    /\ nonce = <<>>
    /\ nonce2 = <<>>
    /\ ids = [addr |-> NoId, policy |-> NoId, addr2 |-> NoId]

InitKeyId ==
    /\ pc = "start"
    /\ sender \in SeqsUpTo(Chars, MaxSenderLen)
    /\ nonceRef = 1
    /\ \E n \in SeqsUpTo(ByteVals, MaxNonceLen) : heap = <<n>>
    /\ call = NoCall
    /\ call0x = NoCall
    /\ inline = NoId
    /\ BindIdle
    /\ PDataIdle
    /\ WalrusIdle
    /\ ScriptsIdle

\* keyId = computeKeyId(sender, nonce)
CallComputeKeyId ==
    /\ pc = "start"
    /\ LET r == computeKeyIdOn(heap, sender, nonceRef)
       IN  /\ heap' = r.heap
           /\ call' = [ref |-> r.ref, err |-> r.err]
    /\ pc' = "called"
    /\ UNCHANGED <<sender, nonceRef, call0x, inline, bindVars, pdataVars,
                   walrusVars, scriptVars>>

\* keyId = computeKeyId("0x" + sender, nonce)
CallComputeKeyId0x ==
    /\ pc = "called"
    /\ LET r == computeKeyIdOn(heap, <<"0", "x">> \o sender, nonceRef)
       IN  /\ heap' = r.heap
           /\ call0x' = [ref |-> r.ref, err |-> r.err]
    /\ pc' = "called0x"
    /\ UNCHANGED <<sender, nonceRef, call, inline, bindVars, pdataVars,
                   walrusVars, scriptVars>>

\* the inline derivation of the allowlist upload on the same sender and nonce
DeriveInline ==
    /\ pc = "called0x"
    /\ inline' = policyEncryptionId(sender, heap[nonceRef])
    /\ pc' = "inlined"
    /\ UNCHANGED <<sender, nonceRef, heap, call, call0x, bindVars, pdataVars,
                   walrusVars, scriptVars>>

NextKeyId == CallComputeKeyId \/ CallComputeKeyId0x \/ DeriveInline

SpecKeyId == InitKeyId /\ [][NextKeyId]_vars

----------------------------------------------------------------------------
(* The two derivations side by side: an address, an allowlist id, nonces *)

\* addresses as the SDK and the chain give them: lower-case hex, with the 0x
\* prefix or without it
Addresses ==
    {pre \o toHex(b) : pre \in {<<>>, <<"0", "x">>},
                       b \in SeqsUpTo(ByteVals, MaxAddrBytes)}

KeyIdIdle ==
    /\ sender = <<>>
    /\ nonceRef = 1
    /\ heap = <<<<>>>>
    /\ call = NoCall
    /\ call0x = NoCall
    /\ inline = NoId

InitBind ==
    /\ pc = "start"
    /\ address \in Addresses
    /\ allowlistId \in Addresses
    /\ nonce \in SeqsUpTo(ByteVals, MaxNonceLen)
    /\ nonce2 = <<>>
    /\ ids = [addr |-> NoId, policy |-> NoId, addr2 |-> NoId]
    /\ KeyIdIdle
    /\ PDataIdle
    /\ WalrusIdle
    /\ ScriptsIdle

\* upload_walrus.ts main, step 2
DeriveAddressBound ==
    /\ pc = "start"
    /\ ids' = [ids EXCEPT !.addr = addressEncryptionId(address, nonce)]
    /\ pc' = "addr"
    /\ UNCHANGED <<address, allowlistId, nonce, nonce2, keyIdVars, pdataVars,
                   walrusVars, scriptVars>>

\* the allowlist upload's main, step 4, drawing the same nonce
DerivePolicyBound ==
    /\ pc = "addr"
    /\ ids' = [ids EXCEPT !.policy = policyEncryptionId(allowlistId, nonce)]
    /\ pc' = "policy"
    /\ UNCHANGED <<address, allowlistId, nonce, nonce2, keyIdVars, pdataVars,
                   walrusVars, scriptVars>>

\* upload_walrus.ts main, step 2, of another run: same address, its own nonce
DeriveAddressBoundAgain ==
    /\ pc = "policy"
    /\ \E n \in SeqsUpTo(ByteVals, MaxNonceLen) :
        /\ nonce2' = n
        /\ ids' = [ids EXCEPT !.addr2 = addressEncryptionId(address, n)]
    /\ pc' = "again"
    /\ UNCHANGED <<address, allowlistId, nonce, keyIdVars, pdataVars,
                   walrusVars, scriptVars>>

NextBind == DeriveAddressBound \/ DerivePolicyBound \/ DeriveAddressBoundAgain

SpecBind == InitBind /\ [][NextBind]_vars

----------------------------------------------------------------------------
(* decrypt_sui_data.ts: decryptPData(objectId) run by main *)

\* addresses of accounts and objects: 0x and the hex of the address bytes
ChainAddresses ==
    {<<"0", "x">> \o toHex(b) : b \in [1..MaxAddrBytes -> ByteVals]}

\* the PrivateData objects a chain can hold under objectId: the stored
\* creator and nonce, and the stored data, which was encrypted under the
\* identifier derived from the address and nonce in encryptedWith
PrivateDataObjects ==
    {[kind |-> "PrivateData", creator |-> c, nonce |-> n,
      data |-> SealEncrypt(addressEncryptionId(a, m).hex, pt),
      encryptedWith |-> [address |-> a, nonce |-> m]] :
        c \in ChainAddresses, n \in SeqsUpTo(ByteVals, MaxNonceLen),
        a \in ChainAddresses, m \in SeqsUpTo(ByteVals, MaxNonceLen),
        pt \in {<<10>>}}

InitPData ==
    /\ pc = "getObject"
    /\ PDataIdle
    /\ KeyIdIdle
    /\ BindIdle
    /\ WalrusIdle
    /\ ScriptsIdle

\* an identifier taken from the header of the stored data
sealApproveId_FromData(creator, storedNonce, storedData) ==
    Returned(storedData.id)

\* const nonceBytes = new Uint8Array(storedNonce);
\* const keyId = computeKeyId(creator, nonceBytes);
sealApproveId(creator, storedNonce, storedData) ==
    computeKeyId(creator, storedNonce)

\* catch (error) { console.error(...); throw error; } and main().catch:
\* process.exit(1)
PDataFails ==
    /\ pd' = [pd EXCEPT !.exit = "exit1"]
    /\ pc' = "exited"

\* await suiClient.getObject(...) throws, or answers an object without
\* content fields
GetObjectFails ==
    /\ pc = "getObject"
    /\ \E o \in {[kind |-> "throws"], [kind |-> "noContent"]} : object' = o
    /\ PDataFails
    /\ UNCHANGED <<keyIdVars, bindVars, walrusVars,
                 scriptVars>>

\* await suiClient.getObject(...) answers a PrivateData object: steps 1 to 4,
\* up to await tx.build
GetObject ==
    /\ pc = "getObject"
    /\ \E o \in PrivateDataObjects :
        /\ object' = o
        /\ LET keyId == sealApproveId(o.creator, o.nonce, o.data)
           IN  IF keyId.err
               THEN PDataFails
               ELSE /\ pd' = [pd EXCEPT
                               !.creator = o.creator,
                               !.storedNonce = o.nonce,
                               !.keyId = keyId.bytes,
                               !.encryptionId = toHex(keyId.bytes),
                               !.tx = [target |-> "private_data::seal_approve",
                                       id |-> keyId.bytes,
                                       object |-> "objectId"]]
                    /\ pc' = "build"
    /\ UNCHANGED <<keyIdVars, bindVars, walrusVars,
                 scriptVars>>

\* await tx.build({ client, onlyTransactionKind: true })
BuildTx ==
    /\ pc = "build"
    /\ \/ /\ pd' = [pd EXCEPT !.txBytes = pd.tx]
          /\ pc' = "sessionKey"
       \/ PDataFails
    /\ UNCHANGED <<object, keyIdVars, bindVars, walrusVars,
                 scriptVars>>

\* SessionKey.create, signPersonalMessage, setPersonalMessageSignature
CreateSessionKey ==
    /\ pc = "sessionKey"
    /\ \/ /\ pc' = "decrypt"
          /\ pd' = pd
       \/ PDataFails
    /\ UNCHANGED <<object, keyIdVars, bindVars, walrusVars,
                 scriptVars>>

\* await sealClient.decrypt({ data, sessionKey, txBytes }): the key servers
\* release a key only for the identifier the transaction names, and only
\* when seal_approve lets the transaction pass
SealDecrypt ==
    /\ pc = "decrypt"
    /\ \/ /\ pd.txBytes.id = object.data.id
          /\ pd' = [pd EXCEPT !.decryptedData = object.data.data,
                              !.exit = "exit0"]
          /\ pc' = "exited"
       \/ PDataFails
    /\ UNCHANGED <<object, keyIdVars, bindVars, walrusVars,
                 scriptVars>>

NextPData ==
    GetObjectFails \/ GetObject \/ BuildTx \/ CreateSessionKey \/ SealDecrypt

SpecPData == InitPData /\ [][NextPData]_vars

----------------------------------------------------------------------------
(* upload_walrus.ts main, then download_walrus.ts main *)

\* const nonce = crypto.getRandomValues(new Uint8Array(5));
NONCE_LENGTH == 5

\* the contents of secret-key.txt: hex, with the 0x prefix or without it, or
\* not hex at all
SecretKeyFiles == {<<"0", "x", "a", "b", "0", "a">>, <<"s", "k">>}

\* a blob id is derived from the blob's content: it is modelled as the
\* content, and two more ids that name no stored blob
UnknownBlobId == [kind |-> "unknown"]
EmptyBlobId == [kind |-> "empty"]

\* a stored blob that is no encrypted object
Garbage == [kind |-> "garbage"]

\* a blob the allowlist upload stored: encrypted under its policy-bound id
PolicyBlob ==
    SealEncrypt(
        policyEncryptionId(<<"0", "x">> \o toHex([i \in 1..MaxAddrBytes |-> 171]),
                           [i \in 1..NONCE_LENGTH |-> 10]).hex,
        <<171>>)

\* a decrypted_<blobId>.hex an earlier run left behind
StaleFile == [kind |-> "file", content |-> <<"f", "f">>]

\* an upload_results.json an earlier upload left behind
StaleResults ==
    [blobId |-> PolicyBlob, encryptionId |-> <<>>, status |-> "Newly created"]

InitWalrus ==
    /\ pc = "shell"
    /\ address \in ChainAddresses
    /\ allowlistId = <<>>
    /\ nonce = <<>>
    /\ nonce2 = <<>>
    /\ ids = [addr |-> NoId, policy |-> NoId, addr2 |-> NoId]
    /\ up = NoUpload
    /\ dl = NoDownload
    /\ walrus = {Garbage, PolicyBlob}
    /\ files \in {NoFiles,
                  [NoFiles EXCEPT !.decrypted = StaleFile],
                  [NoFiles EXCEPT !.uploadResults = StaleResults]}
    /\ KeyIdIdle
    /\ PDataIdle
    /\ ScriptsIdle

\* main().catch: console.error, process.exit(1)
UploadFails ==
    /\ up' = [up EXCEPT !.exit = "exit1"]
    /\ pc' = "shell"

\* main, steps 1 and 2, up to await sealClient.encrypt
UploadStart ==
    /\ pc = "shell"
    /\ up.exit = "notRun"
    /\ dl.exit = "notRun"
    /\ kd.exit = "notRun"
    /\ \E secretKeyHex \in SecretKeyFiles, n \in [1..NONCE_LENGTH -> ByteVals] :
        LET dataBytes == fromHex(strip0x(secretKeyHex))
            keyId == computeKeyId(address, n)
        IN  IF dataBytes.err \/ keyId.err
            THEN UploadFails
            ELSE /\ up' = [up EXCEPT !.dataBytes = dataBytes.bytes,
                                     !.nonce = n,
                                     !.keyId = keyId.bytes,
                                     !.encryptionId = toHex(keyId.bytes),
                                     !.printed = toHex(keyId.bytes),
                                     !.encryptCall =
                                         [id |-> toHex(keyId.bytes),
                                          data |-> dataBytes.bytes],
                                     !.exit = "running"]
                 /\ pc' = "encrypt"
    /\ UNCHANGED <<dl, walrus, files, keyIdVars, bindVars, pdataVars,
                 scriptVars>>

\* await sealClient.encrypt({ threshold: 2, packageId, id: encryptionId, data })
UploadEncrypt ==
    /\ pc = "encrypt"
    /\ \/ /\ up' = [up EXCEPT !.encryptedData =
                                 SealEncrypt(up.encryptCall.id,
                                             up.encryptCall.data)]
          /\ pc' = "storeBlob"
       \/ UploadFails
    /\ UNCHANGED <<dl, walrus, files, keyIdVars, bindVars, pdataVars,
                 scriptVars>>

\* the entries of a publisher's answer for the blob: alreadyCertified
\* (blobId, endEpoch, event.txDigest) and newlyCreated (blobObject with
\* blobId, id, storage.endEpoch)
CertifiedEntry(blobId) ==
    [blobId |-> blobId, endEpoch |-> "epoch1",
     event |-> [txDigest |-> "ref1"]]

CreatedEntry(blobId) ==
    [blobObject |-> [blobId |-> blobId, id |-> "ref2",
                     storage |-> [endEpoch |-> "epoch2"]]]

\* what the publisher can answer to the PUT of the blob: 200 or another
\* status, and as body the info with one of the two keys or with neither
PublisherResponses(blob) ==
    {[status |-> s, info |-> i] :
        s \in {200, 201},
        i \in {[alreadyCertified |-> CertifiedEntry(blob), newlyCreated |-> Absent],
               [alreadyCertified |-> Absent, newlyCreated |-> CreatedEntry(blob)],
               [alreadyCertified |-> Absent, newlyCreated |-> Absent]}}
        \cup {[status |-> 500,
                info |-> [alreadyCertified |-> Absent, newlyCreated |-> Absent]]}

\* a storeBlob that takes every 2xx status for a success
storeBlob_AnyOk(response) ==
    IF response.status \notin 200..299
    THEN [threw |-> TRUE, error |-> "Failed to upload blob", info |-> Absent]
    ELSE [threw |-> FALSE, error |-> "", info |-> response.info]

\* storeBlob, from the answer of the PUT on: throw when response.status !==
\* 200, else return { info: await response.json() }
storeBlob(response) ==
    IF response.status # 200
    THEN [threw |-> TRUE, error |-> "Failed to upload blob", info |-> Absent]
    ELSE [threw |-> FALSE, error |-> "", info |-> response.info]

\* an extractBlobInfo that looks for newlyCreated first
extractBlobInfo_CreatedFirst(storageInfo) ==
    IF storageInfo.newlyCreated # Absent
    THEN [threw |-> FALSE,
          blobId |-> storageInfo.newlyCreated.blobObject.blobId,
          endEpoch |-> storageInfo.newlyCreated.blobObject.storage.endEpoch,
          suiRefType |-> "Associated Sui Object",
          suiRef |-> storageInfo.newlyCreated.blobObject.id,
          status |-> "Newly created"]
    ELSE IF storageInfo.alreadyCertified # Absent
    THEN [threw |-> FALSE,
          blobId |-> storageInfo.alreadyCertified.blobId,
          endEpoch |-> storageInfo.alreadyCertified.endEpoch,
          suiRefType |-> "Previous Sui Certified Event",
          suiRef |-> storageInfo.alreadyCertified.event.txDigest,
          status |-> "Already certified"]
    ELSE [threw |-> TRUE, error |-> "Unhandled successful response!"]

\* extractBlobInfo(storageInfo): a key that is not in storageInfo is Absent
extractBlobInfo(storageInfo) ==
    IF storageInfo.alreadyCertified # Absent
    THEN [threw |-> FALSE,
          blobId |-> storageInfo.alreadyCertified.blobId,
          endEpoch |-> storageInfo.alreadyCertified.endEpoch,
          suiRefType |-> "Previous Sui Certified Event",
          suiRef |-> storageInfo.alreadyCertified.event.txDigest,
          status |-> "Already certified"]
    ELSE IF storageInfo.newlyCreated # Absent
    THEN [threw |-> FALSE,
          blobId |-> storageInfo.newlyCreated.blobObject.blobId,
          endEpoch |-> storageInfo.newlyCreated.blobObject.storage.endEpoch,
          suiRefType |-> "Associated Sui Object",
          suiRef |-> storageInfo.newlyCreated.blobObject.id,
          status |-> "Newly created"]
    ELSE [threw |-> TRUE, error |-> "Unhandled successful response!"]

\* results that carry the hex of the nonce as the identifier
uploadInfo_NonceAsId(locals, blobInfo) ==
    [blobId |-> blobInfo.blobId,
     encryptionId |-> toHex(locals.nonce),
     status |-> blobInfo.status]

\* const uploadInfo = { ..., blobId: blobInfo.blobId, encryptionId, ... }
uploadInfo(locals, blobInfo) ==
    [blobId |-> blobInfo.blobId,
     encryptionId |-> locals.encryptionId,
     status |-> blobInfo.status]

\* the PUT of storeBlob is answered: the status check of storeBlob,
\* extractBlobInfo, and step 5
UploadStore ==
    /\ pc = "storeBlob"
    /\ \E response \in PublisherResponses(up.encryptedData) :
        LET stored == storeBlob(response)
            blobInfo == extractBlobInfo(stored.info)
            answered == [up EXCEPT !.response = [status |-> response.status]]
        IN  IF stored.threw
            THEN /\ up' = [answered EXCEPT !.exit = "exit1"]
                 /\ UNCHANGED <<walrus, files>>
            ELSE IF blobInfo.threw
            THEN /\ up' = [answered EXCEPT !.exit = "exit1"]
                 /\ walrus' = walrus \cup {up.encryptedData}
                 /\ files' = files
            ELSE /\ up' = [answered EXCEPT !.blobInfo = blobInfo,
                                           !.exit = "exit0"]
                 /\ walrus' = walrus \cup {up.encryptedData}
                 /\ files' = [files EXCEPT !.uploadResults =
                                 uploadInfo(up, blobInfo)]
    /\ pc' = "shell"
    /\ UNCHANGED <<dl, keyIdVars, bindVars, pdataVars,
                 scriptVars>>

\* await fetch(publisherUrl, ...) of storeBlob throws
UploadStoreFails ==
    /\ pc = "storeBlob"
    /\ UploadFails
    /\ UNCHANGED <<dl, walrus, files, keyIdVars, bindVars, pdataVars,
                 scriptVars>>

\* the step failed: console.error and process.exit(1), in main or in
\* main().catch
DownloadFails(step, error) ==
    /\ dl' = [dl EXCEPT !.steps = @ \o <<step, "console.error">>,
                        !.error = error,
                        !.exit = "exit1"]
    /\ pc' = "shell"

\* upload_results.json exists and JSON.parse throws on it
CorruptFile == [kind |-> "corrupt"]

\* !value
Falsy(value) == value = Absent \/ value = EmptyBlobId

\* a resolution that looks at upload_results.json before the command line
resolveBlobId_FileFirst(argv, uploadResults, input) ==
    IF uploadResults \notin {Absent, CorruptFile}
    THEN [value |-> uploadResults.blobId, from |-> "file",
          consulted |-> <<"file">>, exit |-> "goesOn"]
    ELSE IF argv # Absent
    THEN [value |-> argv, from |-> "argv", consulted |-> <<"file", "argv">>,
          exit |-> IF Falsy(argv) THEN "exit1" ELSE "goesOn"]
    ELSE [value |-> input, from |-> "prompt",
          consulted |-> <<"file", "argv", "prompt">>,
          exit |-> IF Falsy(input) THEN "exit1" ELSE "goesOn"]

\* download_walrus.ts main, step 1: process.argv[2] when process.argv.length
\* > 2; else uploadInfo.blobId of upload_results.json when the file exists,
\* parses and has one; else the trimmed answer to the prompt
resolveBlobId(argv, uploadResults, input) ==
    LET fileBlobId == IF uploadResults \in {Absent, CorruptFile} THEN Absent
                      ELSE uploadResults.blobId
    IN  IF argv # Absent
        THEN [value |-> argv, from |-> "argv", consulted |-> <<"argv">>,
              exit |-> IF Falsy(argv) THEN "exit1" ELSE "goesOn"]
        ELSE IF ~Falsy(fileBlobId)
        THEN [value |-> fileBlobId, from |-> "file",
              consulted |-> <<"argv", "file">>, exit |-> "goesOn"]
        ELSE [value |-> input, from |-> "prompt",
              consulted |-> <<"argv", "file", "prompt">>,
              exit |-> IF Falsy(input) THEN "exit1" ELSE "goesOn"]

\* main, step 1, up to await SessionKey.create: the blob id is argv[2] when
\* there is one, else the blobId of upload_results.json, else the trimmed
\* answer to the prompt. The script is run on its own or after an upload
\* that succeeded
DownloadStart ==
    /\ pc = "shell"
    /\ dl.exit = "notRun"
    /\ kd.exit = "notRun"
    /\ up.exit \in {"notRun", "exit0"}
    /\ \E argv \in {Absent, EmptyBlobId, UnknownBlobId} \cup walrus,
          answer \in {EmptyBlobId, UnknownBlobId} \cup walrus :
        LET resolved == resolveBlobId(argv, files.uploadResults, answer)
        IN  IF resolved.exit = "exit1"
            THEN /\ dl' = [dl EXCEPT !.argv = argv,
                                     !.steps = @ \o <<"blobId", "console.error">>,
                                     !.error = "no blob id",
                                     !.exit = "exit1"]
                 /\ pc' = "shell"
            ELSE /\ dl' = [dl EXCEPT !.argv = argv,
                                     !.blobId = resolved.value,
                                     !.from = resolved.from,
                                     !.steps = @ \o <<"blobId">>,
                                     !.exit = "running"]
                 /\ pc' = "sessionKey2"
    /\ UNCHANGED <<up, walrus, files, keyIdVars, bindVars, pdataVars,
                 scriptVars>>

\* main, step 2: SessionKey.create, signPersonalMessage,
\* setPersonalMessageSignature
DownloadSessionKey ==
    /\ pc = "sessionKey2"
    /\ \/ /\ pc' = "download"
          /\ dl' = [dl EXCEPT !.steps = @ \o <<"SessionKey.create">>]
       \/ DownloadFails("SessionKey.create", "SessionKey.create")
    /\ UNCHANGED <<up, walrus, files, keyIdVars, bindVars, pdataVars,
                 scriptVars>>

\* EncryptedObject.parse(encryptedData).id, as the SDK may hand it over: a
\* hex string, with the 0x prefix or without it, or the bytes
ParsedIds(encryptedData) ==
    {[type |-> "string", value |-> toHex(encryptedData.id)],
     [type |-> "string", value |-> <<"0", "x">> \o toHex(encryptedData.id)],
     [type |-> "object", value |-> encryptedData.id]}

\* an extraction that slices the hex string whether or not it has a prefix
extractKeyId_AlwaysSlices(id) ==
    LET keyIdHex == IF id.type = "string" THEN id.value ELSE toHex(id.value)
    IN  fromHex(slice2(keyIdHex))

\* const keyIdHex = typeof encryptedObject.id === 'string'
\*     ? encryptedObject.id : toHex(encryptedObject.id);
\* const keyId = fromHex(keyIdHex.startsWith('0x') ? keyIdHex.slice(2) : keyIdHex);
extractKeyId(id) ==
    LET keyIdHex == IF id.type = "string" THEN id.value ELSE toHex(id.value)
    IN  fromHex(IF startsWith0x(keyIdHex) THEN slice2(keyIdHex) ELSE keyIdHex)

\* what an aggregator can answer to GET /v1/blobs/<blobId>: the blob when it
\* holds it; a status that is not OK; fetch rejects on a network error, or
\* on the abort of the 10 s timer; the reading of the body rejects
FailedAnswers ==
    {[kind |-> "notOk"], [kind |-> "networkError"], [kind |-> "timeoutAbort"],
     [kind |-> "bodyError"]}

AggregatorAnswers(blobId) ==
    (IF blobId \in walrus THEN {[kind |-> "ok", body |-> blobId]} ELSE {})
        \cup FailedAnswers

\* the error of downloadAndDecrypt when downloadResult is null
CannotRetrieve == "Cannot retrieve file from Walrus aggregators"

\* a downloadBlobFromWalrus without its catch: rejections pass to the caller
downloadBlobFromWalrus_NoCatch(answer) ==
    [threw |-> answer.kind \notin {"ok", "notOk"},
     value |-> IF answer.kind = "ok" THEN answer.body ELSE Absent]

\* downloadBlobFromWalrus(blobId) of download_walrus.ts, the aggregator
\* answering as given: null (Absent) unless the answer is OK and its body
\* was read; the catch turns every rejection into null
downloadBlobFromWalrus(answer) ==
    [threw |-> FALSE,
     value |-> IF answer.kind = "ok" THEN answer.body ELSE Absent]

\* downloadBlobFromWalrus answers null: the status is not OK, or fetch or
\* the reading of the body throws; downloadAndDecrypt throws
DownloadBlobFails ==
    /\ pc = "download"
    /\ \E answer \in FailedAnswers :
        LET downloadResult == downloadBlobFromWalrus(answer)
        IN  /\ dl' = [dl EXCEPT
                        !.fetch = answer,
                        !.steps = @ \o <<"fetch", "console.error">>,
                        !.error = IF downloadResult.threw THEN answer.kind
                                  ELSE CannotRetrieve,
                        !.exit = "exit1"]
            /\ pc' = "shell"
    /\ UNCHANGED <<up, walrus, files, keyIdVars, bindVars, pdataVars,
                 scriptVars>>

\* an EncryptedObject.parse that reads bytes of any framing as an object
\* with an empty id
EncryptedObjectParse_Lenient(encryptedData) ==
    IF encryptedData.kind = "EncryptedObject"
    THEN [err |-> FALSE, ids |-> ParsedIds(encryptedData)]
    ELSE [err |-> FALSE, ids |-> {[type |-> "object", value |-> <<>>]}]

\* EncryptedObject.parse(encryptedData): throws on bytes that are not the
\* framing of an encrypted object
EncryptedObjectParse(encryptedData) ==
    IF encryptedData.kind = "EncryptedObject"
    THEN [err |-> FALSE, ids |-> ParsedIds(encryptedData)]
    ELSE [err |-> TRUE, ids |-> {}]

\* downloadBlobFromWalrus answers the blob: downloadAndDecrypt steps 2 and 3,
\* up to await tx.build
DownloadBlob ==
    /\ pc = "download"
    /\ dl.blobId \in walrus
    /\ LET answer == [kind |-> "ok", body |-> dl.blobId]
           encryptedData == downloadBlobFromWalrus(answer).value
           encryptedObject == EncryptedObjectParse(encryptedData)
       IN  IF encryptedObject.err
           THEN /\ dl' = [dl EXCEPT
                            !.fetch = answer,
                            !.encryptedData = encryptedData,
                            !.error = "EncryptedObject.parse",
                            !.steps = @ \o <<"fetch", "EncryptedObject.parse",
                                             "console.error">>,
                            !.exit = "exit1"]
                /\ pc' = "shell"
           ELSE \E id \in encryptedObject.ids :
                LET keyId == extractKeyId(id)
                IN  IF keyId.err
                    THEN /\ dl' = [dl EXCEPT
                                     !.fetch = answer,
                                     !.encryptedData = encryptedData,
                                     !.error = "fromHex",
                                     !.parsedId = id,
                                     !.steps = @ \o <<"fetch",
                                                      "EncryptedObject.parse",
                                                      "fromHex", "console.error">>,
                                     !.exit = "exit1"]
                         /\ pc' = "shell"
                    ELSE /\ dl' = [dl EXCEPT
                                     !.fetch = answer,
                                     !.encryptedData = encryptedData,
                                     !.parsedId = id,
                                     !.keyId = keyId.bytes,
                                     !.steps = @ \o <<"fetch",
                                                      "EncryptedObject.parse",
                                                      "fromHex", "moveCall">>,
                                     !.tx = [target |-> "private_data::seal_approve",
                                             id |-> keyId.bytes]]
                         /\ pc' = "build2"
    /\ UNCHANGED <<up, walrus, files, keyIdVars, bindVars, pdataVars,
                 scriptVars>>

\* await tx.build({ client, onlyTransactionKind: true })
DownloadBuildTx ==
    /\ pc = "build2"
    /\ \/ /\ dl' = [dl EXCEPT !.txBytes = dl.tx,
                              !.steps = @ \o <<"tx.build">>]
          /\ pc' = "decrypt2"
       \/ DownloadFails("tx.build", "tx.build")
    /\ UNCHANGED <<up, walrus, files, keyIdVars, bindVars, pdataVars,
                 scriptVars>>

\* await sealClient.decrypt({ data, sessionKey, txBytes }) returns: main,
\* step 4, writes the decrypted file
DownloadDecrypt ==
    /\ pc = "decrypt2"
    /\ dl.txBytes.id = dl.encryptedData.id
    /\ dl' = [dl EXCEPT !.decryptedData = dl.encryptedData.data,
                        !.steps = @ \o <<"sealClient.decrypt", "writeFileSync">>,
                        !.exit = "exit0"]
    /\ files' = [files EXCEPT !.decrypted =
                    [kind |-> "file", content |-> toHex(dl.encryptedData.data)]]
    /\ pc' = "shell"
    /\ UNCHANGED <<up, walrus, keyIdVars, bindVars, pdataVars,
                 scriptVars>>

\* what sealClient.decrypt throws
DecryptErrors == {"NoAccessError", "OtherError"}

\* a catch that throws a new Error(errorMsg)
decryptCatch_Wraps(err) ==
    LET errorMsg == IF err = "NoAccessError"
                    THEN "No access to decryption keys"
                    ELSE "Unable to decrypt file"
    IN  [logged |-> errorMsg, thrown |-> errorMsg]

\* catch (err) { const errorMsg = err instanceof NoAccessError ? ... : ...;
\*               console.error(errorMsg, err); throw err; }
decryptCatch(err) ==
    LET errorMsg == IF err = "NoAccessError"
                    THEN "No access to decryption keys"
                    ELSE "Unable to decrypt file"
    IN  [logged |-> errorMsg, thrown |-> err]

\* await sealClient.decrypt(...) throws: NoAccessError or another error,
\* thrown on by downloadAndDecrypt and by main
DownloadDecryptFails ==
    /\ pc = "decrypt2"
    /\ \E err \in DecryptErrors :
        /\ dl' = [dl EXCEPT
                    !.thrown = err,
                    !.steps = @ \o <<"sealClient.decrypt", "console.error">>,
                    !.error = decryptCatch(err).thrown,
                    !.exit = "exit1"]
        /\ pc' = "shell"
    /\ UNCHANGED <<up, walrus, files, keyIdVars, bindVars, pdataVars,
                 scriptVars>>

----------------------------------------------------------------------------
(* down_encrypted_key.ts main, run from the same shell *)

\* WALRUS_AGGREGATOR_URLS: a list of k urls, the i-th of them written i (the
\* source lists one url)
AggregatorLists == {[i \in 1..k |-> i] : k \in 1..MaxAggregators}

\* a body of the loop that gives up on the first answer that is not OK
tryAggregator_GivesUp(answer) ==
    [returns |-> TRUE,
     value |-> IF answer.kind = "ok" THEN answer.body ELSE Absent]

\* the body of the loop of downloadBlobFromWalrus for one aggregator: it
\* returns the body of an OK answer; after any other answer, and after a
\* rejection (caught), the loop goes on
tryAggregator(answer) ==
    [returns |-> answer.kind = "ok",
     value |-> IF answer.kind = "ok" THEN answer.body ELSE Absent]

\* main, step 1, up to the first await fetch of downloadBlobFromWalrus: the
\* blob id is argv[2] when there is one, else the trimmed answer to the
\* prompt
KeyDownloadStart ==
    /\ pc = "shell"
    /\ kd.exit = "notRun"
    /\ dl.exit = "notRun"
    /\ up.exit \in {"notRun", "exit0"}
    /\ \E argv \in {Absent, EmptyBlobId, UnknownBlobId} \cup walrus,
          input \in {EmptyBlobId, UnknownBlobId} \cup walrus,
          aggregators \in AggregatorLists :
        LET blobId == IF argv # Absent THEN argv ELSE input
        IN  IF blobId = EmptyBlobId
            THEN /\ kd' = [kd EXCEPT !.steps = <<"blobId", "console.error">>,
                                     !.error = "no blob id",
                                     !.exit = "exit1"]
                 /\ pc' = "shell"
            ELSE /\ kd' = [kd EXCEPT !.blobId = blobId,
                                     !.aggregators = aggregators,
                                     !.steps = <<"blobId">>,
                                     !.exit = "running"]
                 /\ pc' = "fetchKey"
    /\ UNCHANGED <<up, dl, walrus, files, keyIdVars, bindVars, pdataVars,
                   extractVars, fetchVars, addVars, allowVars, deployVars,
                   resolveVars>>

\* one turn of the loop of downloadBlobFromWalrus: await fetch, await
\* response.arrayBuffer(); when the function returns, main, steps 2 and 3
KeyDownloadTry ==
    /\ pc = "fetchKey"
    /\ LET i == Len(kd.contacted) + 1
           aggregator == kd.aggregators[i]
       IN  \E answer \in AggregatorAnswers(kd.blobId) :
           LET turn == tryAggregator(answer)
               tried == [kd EXCEPT !.contacted = Append(@, aggregator),
                                   !.answers = Append(@, answer.kind)]
           IN  IF turn.returns /\ turn.value # Absent
               THEN /\ kd' = [tried EXCEPT
                                !.downloadResult = turn.value,
                                !.steps = @ \o <<"fetch", "writeFileSync">>,
                                !.exit = "exit0"]
                    /\ files' = [files EXCEPT !.encrypted = turn.value]
                    /\ pc' = "shell"
               ELSE IF turn.returns \/ i = Len(kd.aggregators)
               THEN /\ kd' = [tried EXCEPT
                                !.steps = @ \o <<"fetch", "console.error">>,
                                !.error = CannotRetrieve,
                                !.exit = "exit1"]
                    /\ files' = files
                    /\ pc' = "shell"
               ELSE /\ kd' = [tried EXCEPT !.steps = @ \o <<"fetch">>]
                    /\ files' = files
                    /\ pc' = "fetchKey"
    /\ UNCHANGED <<up, dl, walrus, keyIdVars, bindVars, pdataVars,
                   extractVars, fetchVars, addVars, allowVars, deployVars,
                   resolveVars>>

NextWalrus ==
    \/ UploadStart \/ UploadEncrypt \/ UploadStore \/ UploadStoreFails
    \/ DownloadStart \/ DownloadSessionKey \/ DownloadBlobFails
    \/ DownloadBlob \/ DownloadBuildTx \/ DownloadDecrypt
    \/ DownloadDecryptFails
    \/ KeyDownloadStart \/ KeyDownloadTry

SpecWalrus == InitWalrus /\ [][NextWalrus]_vars

----------------------------------------------------------------------------
(* The id to process, as the two main functions resolve it *)

\* an id given through a source; prefixed: it starts with 0x
Ids(source) ==
    {[kind |-> "id", source |-> source, prefixed |-> p] : p \in BOOLEAN}

\* decrypt_sui_data.ts main, steps 1 to 3 and the check of the format:
\* process.argv[2]; if (!objectId) process.env.OBJECT_ID; if (!objectId)
\* the trimmed answer to the prompt
resolveObjectId(argv, envObjectId, userInput) ==
    LET resolved ==
            IF ~Falsy(argv)
            THEN [value |-> argv, from |-> "argv", consulted |-> <<"argv">>]
            ELSE IF ~Falsy(envObjectId)
            THEN [value |-> envObjectId, from |-> "env",
                  consulted |-> <<"argv", "env">>]
            ELSE [value |-> userInput, from |-> "prompt",
                  consulted |-> <<"argv", "env", "prompt">>]
    IN  [value |-> resolved.value, from |-> resolved.from,
         consulted |-> resolved.consulted,
         exit |-> IF Falsy(resolved.value) THEN "exit1"
                  ELSE IF ~resolved.value.prefixed THEN "exit1 format"
                  ELSE "goesOn"]

\* upload_results.json: missing, not JSON, without a blobId, with an empty
\* one, or as an upload wrote it
UploadResultsFiles ==
    {Absent, CorruptFile}
        \cup {[blobId |-> b, encryptionId |-> <<>>, status |-> "Newly created"] :
                b \in {Absent, EmptyBlobId} \cup Ids("file")}

InitResolve ==
    /\ pc = "main"
    /\ \E argv \in {Absent, EmptyBlobId} \cup Ids("argv"),
          envObjectId \in {Absent, EmptyBlobId} \cup Ids("env"),
          uploadResults \in UploadResultsFiles,
          input \in {EmptyBlobId} \cup Ids("prompt") :
        rs = [NoResolve EXCEPT !.argv = argv, !.envObjectId = envObjectId,
                               !.uploadResults = uploadResults,
                               !.input = input]
    /\ KeyDownloadIdle
    /\ AllowIdle
    /\ DeployIdle
    /\ AddIdle
    /\ FetchIdle
    /\ ExtractIdle
    /\ KeyIdIdle
    /\ BindIdle
    /\ PDataIdle
    /\ WalrusIdle

\* decrypt_sui_data.ts main, up to the call of decryptPData
ResolveObjectId ==
    /\ pc = "main"
    /\ rs' = [rs EXCEPT !.objectId =
                  resolveObjectId(rs.argv, rs.envObjectId, rs.input)]
    /\ pc' = "main2"
    /\ UNCHANGED <<keyIdVars, bindVars, pdataVars, extractVars, fetchVars,
                   addVars, walrusVars, keyDlVars, allowVars, deployVars>>

\* download_walrus.ts main, step 1, run with the same command line and
\* the same answer to its prompt
ResolveBlobId ==
    /\ pc = "main2"
    /\ rs' = [rs EXCEPT !.blobId =
                  resolveBlobId(rs.argv, rs.uploadResults, rs.input)]
    /\ pc' = "resolved"
    /\ UNCHANGED <<keyIdVars, bindVars, pdataVars, extractVars, fetchVars,
                   addVars, walrusVars, keyDlVars, allowVars, deployVars>>

NextResolve == ResolveObjectId \/ ResolveBlobId

SpecResolve == InitResolve /\ [][NextResolve]_vars

----------------------------------------------------------------------------
(* The allowlist upload: main *)

\* the i-th Cap object of the account and the allowlist it belongs to
CapAt(i) ==
    [id |-> i,
     allowlist_id |-> <<"0", "x">> \o toHex([j \in 1..MaxAddrBytes |-> i])]

\* the Allowlist object under the id, as the chain holds it
AllowlistAt(id) ==
    [name |-> <<"list">> \o id,
     list |-> [j \in 1..HexVal(id[Len(id)]) |-> "member"]]

\* getAllowlist(allowlistId): the object's name and list, or the thrown
\* error when getObject throws or answers no content fields
getAllowlist(id) ==
    IF id \in chain.failing
    THEN [err |-> TRUE]
    ELSE [err |-> FALSE, id |-> id,
          name |-> AllowlistAt(id).name, list |-> AllowlistAt(id).list]

\* the callback of allCaps.map: the info of one Cap, a placeholder when
\* the lookup throws
capInfo(cap, allowlist) ==
    IF allowlist.err
    THEN [cap |-> cap, allowlistName |-> "N/A", memberCount |-> 0]
    ELSE [cap |-> cap, allowlistName |-> allowlist.name,
          memberCount |-> Len(allowlist.list)]

\* results kept in the order in which the lookups settle
resultIndex_AsSettled(i, settled) == Len(settled) + 1

\* Promise.all: the result of the i-th promise is the i-th element of the
\* array, whatever settled before it
resultIndex(i, settled) == i

\* parseInt(input.trim()) for the answers of the model: an optional run of
\* digits, then anything; NaN when there is no digit at the start
Digits == <<"0", "1", "2", "3", "4", "5", "6", "7", "8", "9">>

IsDigit(c) == \E d \in 1..10 : Digits[d] = c

RECURSIVE parseDigits(_, _)
parseDigits(s, acc) ==
    IF s = <<>> \/ ~IsDigit(s[1]) THEN acc
    ELSE parseDigits(Tail(s),
                     10 * acc + (CHOOSE d \in 1..10 : Digits[d] = s[1]) - 1)

parseInt(s) ==
    IF s = <<>> \/ ~IsDigit(s[1]) THEN [nan |-> TRUE, value |-> 0]
    ELSE [nan |-> FALSE, value |-> parseDigits(s, 0)]

\* what the operator can type at the prompt
PromptAnswers ==
    {<<Digits[d]>> : d \in 1..MaxCaps + 2}
        \cup {<<>>, <<"x">>, <<"2", "x">>, <<"1", "0">>}

InitAllowlist ==
    /\ pc = "allowlist"
    /\ al = NoAllow
    /\ chain \in {[failing |-> f, published |-> {}] :
                    f \in SUBSET {CapAt(i).allowlist_id : i \in 1..MaxCaps}}
    /\ up = NoUpload
    /\ dl = NoDownload
    /\ walrus = {}
    /\ files = NoFiles
    /\ KeyDownloadIdle
    /\ DeployIdle
    /\ ResolveIdle
    /\ AddIdle
    /\ FetchIdle
    /\ ExtractIdle
    /\ KeyIdIdle
    /\ BindIdle
    /\ PDataIdle

\* main().catch: console.error, process.exit(1); and the process.exit(1)
\* calls of main
AllowFails(step, error) ==
    /\ al' = [al EXCEPT !.steps = @ \o <<step, "console.error">>,
                        !.error = error,
                        !.exit = "exit1"]
    /\ pc' = "exited"

\* step 4 and the call of sealClient.encrypt, for the selected Cap
encryptFor(locals, cap, n) ==
    LET encryptionId == policyEncryptionId(cap.allowlist_id, n)
    IN  [locals EXCEPT
            !.selectedCap = cap,
            !.nonce = n,
            !.encryptionId = encryptionId.hex,
            !.printed = encryptionId.hex,
            !.encryptCall = [id |-> encryptionId.hex, data |-> locals.dataBytes],
            !.steps = @ \o <<"select", "encryptionId">>]

\* main, step 1, up to await getAllCaps()
AllowStart ==
    /\ pc = "allowlist"
    /\ \E secretKeyHex \in SecretKeyFiles :
        LET dataBytes == fromHex(strip0x(secretKeyHex))
        IN  IF dataBytes.err
            THEN AllowFails("fromHex", "fromHex")
            ELSE /\ al' = [al EXCEPT !.dataBytes = dataBytes.bytes,
                                     !.steps = <<"fromHex">>,
                                     !.exit = "running"]
                 /\ pc' = "getAllCaps"
    /\ UNCHANGED <<chain, keyIdVars, bindVars, pdataVars, extractVars,
                   fetchVars, addVars, walrusVars, keyDlVars, deployVars,
                   resolveVars>>

\* await getAllCaps() settles; steps 2 and 3, up to the first await: with no
\* Cap the run ends, with one it is selected and encrypt is called, with
\* several the lookups are started
AllowGetAllCaps ==
    /\ pc = "getAllCaps"
    /\ \/ AllowFails("getAllCaps", "getOwnedObjects")
       \/ \E k \in 0..MaxCaps, n \in [1..NONCE_LENGTH -> ByteVals] :
            LET allCaps == [i \in 1..k |-> CapAt(i)]
                loaded == [al EXCEPT !.allCaps = allCaps,
                                     !.steps = @ \o <<"getAllCaps">>]
            IN  IF k = 0
                THEN /\ al' = [loaded EXCEPT
                                 !.steps = @ \o <<"console.log">>,
                                 !.error = "No Cap objects found",
                                 !.exit = "exit1"]
                     /\ pc' = "exited"
                ELSE IF k = 1
                THEN /\ al' = encryptFor(loaded, allCaps[1], n)
                     /\ pc' = "encryptKey"
                ELSE /\ al' = [loaded EXCEPT
                                 !.pending = 1..k,
                                 !.capInfos = [i \in 1..k |-> Absent]]
                     /\ pc' = "lookups"
    /\ UNCHANGED <<chain, keyIdVars, bindVars, pdataVars, extractVars,
                   fetchVars, addVars, walrusVars, keyDlVars, deployVars,
                   resolveVars>>

\* the getAllowlist of one Cap settles, in any order; when it is the last
\* one Promise.all resolves, the choices are printed and the prompt is shown
AllowLookupSettles ==
    /\ pc = "lookups"
    /\ \E i \in al.pending :
        LET info == capInfo(al.allCaps[i], getAllowlist(al.allCaps[i].allowlist_id))
            at == resultIndex(i, al.settled)
            capInfos == [al.capInfos EXCEPT ![at] = info]
            pending == al.pending \ {i}
        IN  /\ al' = [al EXCEPT
                        !.capInfos = capInfos,
                        !.pending = pending,
                        !.settled = Append(@, i),
                        !.shown = IF pending = {} THEN capInfos ELSE <<>>,
                        !.steps = IF pending = {} THEN @ \o <<"Promise.all", "prompt">>
                                  ELSE @]
            /\ pc' = IF pending = {} THEN "prompt" ELSE "lookups"
    /\ UNCHANGED <<chain, keyIdVars, bindVars, pdataVars, extractVars,
                   fetchVars, addVars, walrusVars, keyDlVars, deployVars,
                   resolveVars>>

\* the operator answers the prompt: the selection, step 4 and the call of
\* sealClient.encrypt
AllowSelect ==
    /\ pc = "prompt"
    /\ \E input \in PromptAnswers, n \in [1..NONCE_LENGTH -> ByteVals] :
        LET parsed == parseInt(input)
            selectedIndex == parsed.value - 1
        IN  IF parsed.nan \/ selectedIndex < 0 \/ selectedIndex >= Len(al.allCaps)
            THEN /\ al' = [al EXCEPT !.input = [text |-> input],
                                     !.steps = @ \o <<"console.error">>,
                                     !.error = "Invalid selection",
                                     !.exit = "exit1"]
                 /\ pc' = "exited"
            ELSE /\ al' = encryptFor([al EXCEPT !.input = [text |-> input]],
                                     al.allCaps[selectedIndex + 1], n)
                 /\ pc' = "encryptKey"
    /\ UNCHANGED <<chain, keyIdVars, bindVars, pdataVars, extractVars,
                   fetchVars, addVars, walrusVars, keyDlVars, deployVars,
                   resolveVars>>

\* await sealClient.encrypt({ threshold: 2, packageId, id: encryptionId,
\* data: dataBytes }), up to await fetch of storeBlob
AllowEncrypt ==
    /\ pc = "encryptKey"
    /\ \/ /\ al' = [al EXCEPT
                      !.encryptedData =
                          SealEncrypt(al.encryptCall.id, al.encryptCall.data),
                      !.steps = @ \o <<"sealClient.encrypt">>]
          /\ pc' = "storeKey"
       \/ AllowFails("sealClient.encrypt", "sealClient.encrypt")
    /\ UNCHANGED <<chain, keyIdVars, bindVars, pdataVars, extractVars,
                   fetchVars, addVars, walrusVars, keyDlVars, deployVars,
                   resolveVars>>

\* the PUT of storeBlob is answered: the status check of storeBlob,
\* extractBlobInfo, and publishToAllowlist up to await
\* signAndExecuteTransaction
AllowStore ==
    /\ pc = "storeKey"
    /\ \E response \in PublisherResponses(al.encryptedData) :
        LET stored == storeBlob(response)
            blobInfo == extractBlobInfo(stored.info)
            answered == [al EXCEPT !.response = [status |-> response.status]]
        IN  IF stored.threw
            THEN /\ al' = [answered EXCEPT
                             !.steps = @ \o <<"storeBlob", "console.error">>,
                             !.error = stored.error,
                             !.exit = "exit1"]
                 /\ pc' = "exited"
                 /\ walrus' = walrus
            ELSE IF blobInfo.threw
            THEN /\ al' = [answered EXCEPT
                             !.steps = @ \o <<"storeBlob", "console.error">>,
                             !.error = blobInfo.error,
                             !.exit = "exit1"]
                 /\ pc' = "exited"
                 /\ walrus' = walrus \cup {al.encryptedData}
            ELSE /\ al' = [answered EXCEPT
                             !.blobInfo = blobInfo,
                             !.tx = [target |-> "allowlist::publish",
                                     allowlistId |-> al.selectedCap.allowlist_id,
                                     capId |-> al.selectedCap.id,
                                     blobId |-> blobInfo.blobId],
                             !.steps = @ \o <<"storeBlob", "extractBlobInfo">>]
                 /\ pc' = "publish"
                 /\ walrus' = walrus \cup {al.encryptedData}
    /\ UNCHANGED <<up, dl, files, chain, keyIdVars, bindVars, pdataVars,
                   extractVars, fetchVars, addVars, keyDlVars, deployVars,
                   resolveVars>>

\* await fetch(publisherUrl, ...) of storeBlob throws
AllowStoreFails ==
    /\ pc = "storeKey"
    /\ AllowFails("storeBlob", "fetch")
    /\ UNCHANGED <<chain, keyIdVars, bindVars, pdataVars, extractVars,
                   fetchVars, addVars, walrusVars, keyDlVars, deployVars,
                   resolveVars>>

\* what await baseSuiClient.signAndExecuteTransaction(...) can do: throw
\* (building, signing or the request failed), or return the response of the
\* executed transaction, whose effects say whether the execution succeeded
\* or failed (a Move abort, gas running out)
ExecuteOutcomes ==
    {[kind |-> "throws"],
     [kind |-> "returns", status |-> "success"],
     [kind |-> "returns", status |-> "failure"]}

\* await signAndExecuteTransaction(...) settles: the rest of
\* publishToAllowlist, and main, step 8
AllowPublish ==
    /\ pc = "publish"
    /\ \E result \in ExecuteOutcomes :
        IF result.kind = "throws"
        THEN /\ AllowFails("signAndExecuteTransaction",
                           "signAndExecuteTransaction")
             /\ UNCHANGED <<chain, files>>
        ELSE /\ chain' = IF result.status = "success"
                         THEN [chain EXCEPT !.published = @ \cup {al.tx}]
                         ELSE chain
             /\ al' = [al EXCEPT
                         !.result = result,
                         !.steps = @ \o <<"signAndExecuteTransaction",
                                          "writeFileSync">>,
                         !.exit = "exit0"]
             /\ files' = [files EXCEPT !.secretKeyResults =
                             [allowlistId |-> al.selectedCap.allowlist_id,
                              capId |-> al.selectedCap.id,
                              blobId |-> al.blobInfo.blobId,
                              encryptionId |-> al.encryptionId,
                              status |-> al.blobInfo.status]]
             /\ pc' = "exited"
    /\ UNCHANGED <<up, dl, walrus, keyIdVars, bindVars, pdataVars,
                   extractVars, fetchVars, addVars, keyDlVars, deployVars,
                   resolveVars>>

NextAllowlist ==
    \/ AllowStart \/ AllowGetAllCaps \/ AllowLookupSettles \/ AllowSelect
    \/ AllowEncrypt \/ AllowStore \/ AllowStoreFails \/ AllowPublish

SpecAllowlist == InitAllowlist /\ [][NextAllowlist]_vars

\* the two upload scripts, each run from its start
NextUpload ==
    \/ UploadStart \/ UploadEncrypt \/ UploadStore \/ UploadStoreFails
    \/ NextAllowlist

SpecUpload == (InitWalrus \/ InitAllowlist) /\ [][NextUpload]_vars

----------------------------------------------------------------------------
(* The add-address script: addAddressToAllowlist and main *)

\* the length of a Sui address in bytes: 32 in @mysten/sui, the length of
\* the addresses of the model here
SUI_ADDRESS_LENGTH == MaxAddrBytes

\* String.prototype.trim: white space removed at both ends
RECURSIVE trimStart(_)
trimStart(s) == IF s # <<>> /\ s[1] = " " THEN trimStart(Tail(s)) ELSE s

RECURSIVE trimEnd(_)
trimEnd(s) ==
    IF s # <<>> /\ s[Len(s)] = " " THEN trimEnd(SubSeq(s, 1, Len(s) - 1))
    ELSE s

trim(s) == trimEnd(trimStart(s))

\* /^(0x|0X)/.test(value)
hasHexPrefix(value) ==
    Len(value) >= 2 /\ value[1] = "0" /\ value[2] \in {"x", "X"}

\* isHex: /^(0x|0X)?[a-fA-F0-9]+$/.test(value) && value.length % 2 === 0
isHex(value) ==
    LET digits == IF hasHexPrefix(value) THEN SubSeq(value, 3, Len(value))
                  ELSE value
    IN  /\ Len(digits) > 0
        /\ \A i \in 1..Len(digits) : IsHexChar(digits[i])
        /\ Len(value) % 2 = 0

\* getHexByteLength: (value.length - 2) / 2 with a prefix, value.length / 2
\* without one
getHexByteLength(value) ==
    IF hasHexPrefix(value) THEN (Len(value) - 2) \div 2 ELSE Len(value) \div 2

\* a validation that looks at the digits only, not at the length
isValidSuiAddress_AnyLength(value) == isHex(value)

\* isValidSuiAddress (@mysten/sui/utils)
isValidSuiAddress(value) ==
    isHex(value) /\ getHexByteLength(value) = SUI_ADDRESS_LENGTH

\* addAddressToAllowlist, up to await signAndExecuteTransaction: the thrown
\* error, or the allowlist::add transaction that is submitted
addAddressToAllowlist(allowlist_id, capId, addressToAdd) ==
    LET trimmedAddress == trim(addressToAdd)
    IN  IF trimmedAddress = <<>>
        THEN [threw |-> TRUE, error |-> "Address cannot be empty", tx |-> Absent]
        ELSE IF ~isValidSuiAddress(trimmedAddress)
        THEN [threw |-> TRUE, error |-> "Invalid Sui address", tx |-> Absent]
        ELSE [threw |-> FALSE, error |-> "",
              tx |-> [target |-> "allowlist::add",
                      allowlistId |-> allowlist_id,
                      capId |-> capId,
                      address |-> trimmedAddress]]

\* an address of the model, written in full
GoodAddress == <<"0", "x">> \o toHex([i \in 1..MaxAddrBytes |-> 171])

\* what the operator can give as the address, on the command line or at
\* the prompt
AddressTexts ==
    {GoodAddress,
     <<" ">> \o GoodAddress \o <<" ">>,
     toHex([i \in 1..MaxAddrBytes |-> 171]),
     <<"0", "X">> \o toHex([i \in 1..MaxAddrBytes |-> 10]),
     GoodAddress \o <<"a", "b">>,
     SubSeq(GoodAddress, 1, Len(GoodAddress) - 1),
     <<"0", "x">> \o [i \in 1..2 * MaxAddrBytes |-> "g"],
     <<"0", "x">>,
     <<" ">>,
     <<>>}

\* a record an earlier run saved
OldRecord(i) ==
    [allowlistId |-> CapAt(1).allowlist_id, capId |-> CapAt(1).id,
     addressAdded |-> <<"0", "x">> \o toHex([j \in 1..MaxAddrBytes |-> i])]

\* add_address_results.json as a run can find it: contents JSON.parse
\* rejects, one value that is not an array, or an array of records
AddResultsFiles ==
    {[kind |-> "unparsable"],
     [kind |-> "json", array |-> FALSE, items |-> <<OldRecord(1)>>]}
        \cup {[kind |-> "json", array |-> TRUE,
               items |-> [i \in 1..n |-> OldRecord(i)]] : n \in 0..MaxResults}

\* main, step 7: allResults from the existing file, push(addInfo),
\* writeFileSync
saveResults(existing, addInfo) ==
    LET allResults ==
            IF existing = Absent \/ existing.kind = "unparsable" THEN <<>>
            ELSE IF existing.array THEN existing.items
            ELSE <<existing.items[1]>>
    IN  [kind |-> "json", array |-> TRUE,
         items |-> Append(allResults, addInfo)]

InitAdd ==
    /\ pc \in {"addAddress", "addCall"}
    /\ ad = NoAdd
    /\ up = NoUpload
    /\ dl = NoDownload
    /\ walrus = {}
    /\ \E existing \in {Absent} \cup AddResultsFiles :
           files = [NoFiles EXCEPT !.addAddressResults = existing]
    /\ KeyDownloadIdle
    /\ AllowIdle
    /\ DeployIdle
    /\ ResolveIdle
    /\ FetchIdle
    /\ ExtractIdle
    /\ KeyIdIdle
    /\ BindIdle
    /\ PDataIdle

\* a direct call of addAddressToAllowlist, with any address text
AddCall ==
    /\ pc = "addCall"
    /\ \E text \in AddressTexts, i \in 1..MaxCaps :
        ad' = [ad EXCEPT
                 !.called = [address |-> text,
                             outcome |-> addAddressToAllowlist(
                                 CapAt(i).allowlist_id, CapAt(i).id, text)],
                 !.steps = @ \o <<"addAddressToAllowlist">>,
                 !.exit = "running"]
    /\ pc' = "exited"
    /\ UNCHANGED <<keyIdVars, bindVars, pdataVars, extractVars, fetchVars,
                   walrusVars, keyDlVars, allowVars, deployVars,
                   resolveVars>>

\* process.exit(1) in main, or a thrown error that reaches main().catch
AddFails(locals, step, error) ==
    /\ ad' = [locals EXCEPT !.steps = @ \o <<step, "console.error">>,
                            !.error = error,
                            !.exit = "exit1"]
    /\ pc' = "exited"

\* main, step 1 and the validation of the address
AddStart ==
    /\ pc = "addAddress"
    /\ \E argv \in {Absent} \cup {[text |-> t] : t \in AddressTexts},
          answer \in AddressTexts :
        LET input == trim(answer)
            read == IF argv # Absent
                    THEN [ad EXCEPT !.argv = argv, !.exit = "running"]
                    ELSE [ad EXCEPT !.input = [text |-> input],
                                    !.steps = @ \o <<"prompt">>,
                                    !.exit = "running"]
            addressToAdd == IF argv # Absent THEN argv.text ELSE trim(input)
            trimmedAddress == trim(addressToAdd)
        IN  /\ argv # Absent => answer = <<>>
            /\ IF addressToAdd = <<>>
               THEN AddFails(read, "addressToAdd", "no address")
               ELSE IF ~isValidSuiAddress(trimmedAddress)
               THEN AddFails([read EXCEPT
                                !.addressToAdd = [text |-> addressToAdd],
                                !.trimmedAddress = [text |-> trimmedAddress]],
                             "isValidSuiAddress", "Invalid Sui address")
               ELSE /\ ad' = [read EXCEPT
                                !.addressToAdd = [text |-> addressToAdd],
                                !.trimmedAddress = [text |-> trimmedAddress],
                                !.steps = @ \o <<"isValidSuiAddress">>]
                    /\ pc' = "addCaps"
    /\ UNCHANGED <<keyIdVars, bindVars, pdataVars, extractVars, fetchVars,
                   walrusVars, keyDlVars, allowVars, deployVars,
                   resolveVars>>

\* main, steps 2 and 3: getAllCaps, the lookups and the selection of a Cap
AddSelectCap ==
    /\ pc = "addCaps"
    /\ \/ AddFails(ad, "getAllCaps", "getOwnedObjects")
       \/ \E k \in 0..MaxCaps, input \in PromptAnswers :
            LET allCaps == [i \in 1..k |-> CapAt(i)]
                loaded == [ad EXCEPT !.allCaps = allCaps,
                                     !.steps = @ \o <<"getAllCaps">>]
                parsed == parseInt(input)
                selectedIndex == parsed.value - 1
            IN  IF k = 0
                THEN /\ input = <<>>
                     /\ ad' = [loaded EXCEPT
                                 !.steps = @ \o <<"console.log">>,
                                 !.error = "No Cap objects found",
                                 !.exit = "exit1"]
                     /\ pc' = "exited"
                ELSE IF k = 1
                THEN /\ input = <<>>
                     /\ ad' = [loaded EXCEPT !.selectedCap = allCaps[1]]
                     /\ pc' = "addBefore"
                ELSE IF parsed.nan \/ selectedIndex < 0 \/ selectedIndex >= k
                THEN AddFails([loaded EXCEPT
                                 !.selection = [text |-> input],
                                 !.steps = @ \o <<"Promise.all", "prompt">>],
                              "select", "Invalid selection")
                ELSE /\ ad' = [loaded EXCEPT
                                 !.selection = [text |-> input],
                                 !.selectedCap = allCaps[selectedIndex + 1],
                                 !.steps = @ \o <<"Promise.all", "prompt">>]
                     /\ pc' = "addBefore"
    /\ UNCHANGED <<keyIdVars, bindVars, pdataVars, extractVars, fetchVars,
                   walrusVars, keyDlVars, allowVars, deployVars,
                   resolveVars>>

\* main, steps 4 and 5 up to await signAndExecuteTransaction: the state of
\* the allowlist before, the confirmation when the address is already in it,
\* and the call of addAddressToAllowlist
AddCheckBefore ==
    /\ pc = "addBefore"
    /\ \E beforeInfo \in {[kind |-> "null"],
                          [kind |-> "info", includes |-> FALSE],
                          [kind |-> "info", includes |-> TRUE]},
          confirm \in {"y", "Y", "n", ""} :
        LET asked == beforeInfo.kind = "info" /\ beforeInfo.includes
            checked == [ad EXCEPT
                          !.beforeInfo = beforeInfo,
                          !.confirm = IF asked THEN [text |-> confirm]
                                      ELSE Absent,
                          !.steps = @ \o <<"getAllowlistInfo">>]
            outcome == addAddressToAllowlist(ad.selectedCap.allowlist_id,
                                             ad.selectedCap.id,
                                             ad.trimmedAddress.text)
        IN  /\ ~asked => confirm = "y"
            /\ IF asked /\ confirm \notin {"y", "Y"}
               THEN /\ ad' = [checked EXCEPT !.exit = "exit0"]
                    /\ pc' = "exited"
               ELSE IF outcome.threw
               THEN AddFails(checked, "addAddressToAllowlist", outcome.error)
               ELSE /\ ad' = [checked EXCEPT
                                !.tx = outcome.tx,
                                !.steps = @ \o <<"addAddressToAllowlist">>]
                    /\ pc' = "addExecute"
    /\ UNCHANGED <<keyIdVars, bindVars, pdataVars, extractVars, fetchVars,
                   walrusVars, keyDlVars, allowVars, deployVars,
                   resolveVars>>

\* await signAndExecuteTransaction(...) settles: the rest of
\* addAddressToAllowlist, and main, steps 6 and 7
AddExecute ==
    /\ pc = "addExecute"
    /\ \E result \in ExecuteOutcomes :
        IF result.kind = "throws"
        THEN /\ AddFails(ad, "signAndExecuteTransaction",
                         "signAndExecuteTransaction")
             /\ UNCHANGED files
        ELSE /\ ad' = [ad EXCEPT
                         !.result = result,
                         !.existing = files.addAddressResults,
                         !.steps = @ \o <<"signAndExecuteTransaction",
                                          "getAllowlistInfo", "writeFileSync">>,
                         !.exit = "exit0"]
             /\ files' = [files EXCEPT !.addAddressResults =
                             saveResults(files.addAddressResults,
                                 [allowlistId |-> ad.selectedCap.allowlist_id,
                                  capId |-> ad.selectedCap.id,
                                  addressAdded |-> ad.trimmedAddress.text])]
             /\ pc' = "exited"
    /\ UNCHANGED <<up, dl, walrus, keyIdVars, bindVars, pdataVars,
                   extractVars, fetchVars, keyDlVars, allowVars, deployVars,
                   resolveVars>>

NextAdd ==
    \/ AddCall \/ AddStart \/ AddSelectCap \/ AddCheckBefore \/ AddExecute

SpecAdd == InitAdd /\ [][NextAdd]_vars

----------------------------------------------------------------------------
(* downloadBlobFromWalrus: one call, its requests and its abort timers *)

\* how an aggregator treats one request: it answers 200 and the whole body,
\* answers a status that is not ok, fails at the network, never answers, or
\* answers the headers of a 200 and never finishes the body
AggregatorBehaviours ==
    {"ok", "notOk", "networkError", "silent", "stalledBody"}

\* download_walrus.ts asks one aggregator picked at random, and returns
\* null when it fails; down_encrypted_key.ts asks them in the order of the
\* list, and goes to the next when one fails
FetchVariants == {"random", "inOrder"}

InitFetch ==
    /\ pc = "downloadBlob"
    /\ \E variant \in FetchVariants, count \in 1..MaxAggregators :
        fx = [NoFetch EXCEPT !.variant = variant, !.count = count]
    /\ KeyDownloadIdle
    /\ AllowIdle
    /\ DeployIdle
    /\ ResolveIdle
    /\ AddIdle
    /\ ExtractIdle
    /\ KeyIdIdle
    /\ BindIdle
    /\ PDataIdle
    /\ WalrusIdle

\* return value from inside the function
FetchReturns(locals, value) ==
    /\ fx' = [locals EXCEPT !.request = "none", !.returned = value,
                            !.steps = @ \o <<"return">>]
    /\ pc' = "returned"

\* the request to the aggregator failed: return null in download_walrus.ts;
\* in down_encrypted_key.ts the next turn of the loop, return null after the
\* last aggregator
FetchGivesUp(locals) ==
    IF locals.variant = "inOrder" /\ locals.index < locals.count
    THEN /\ fx' = [locals EXCEPT !.request = "none"]
         /\ pc' = "downloadBlob"
    ELSE FetchReturns(locals, [kind |-> "null"])

\* new AbortController(); setTimeout(() => controller.abort(), 10000);
\* fetch(aggregatorUrl, { signal }) is started and awaited
FetchRequest ==
    /\ pc = "downloadBlob"
    /\ \E i \in 1..fx.count, behaviour \in AggregatorBehaviours :
        /\ IF fx.variant = "inOrder" THEN i = fx.index + 1 ELSE TRUE
        /\ fx' = [fx EXCEPT !.index = i,
                            !.behaviour = behaviour,
                            !.request = "fetch",
                            !.timers = @ \cup {Len(fx.tried) + 1},
                            !.tried = Append(@, i),
                            !.steps = @ \o <<"setTimeout", "fetch">>]
    /\ pc' = "awaitFetch"
    /\ UNCHANGED <<keyIdVars, bindVars, pdataVars, extractVars, walrusVars,
                   keyDlVars, allowVars, deployVars, resolveVars, addVars>>

\* the response headers arrive: await fetch returns, clearTimeout(timeout),
\* then the status check and the call of response.arrayBuffer()
FetchResponds ==
    /\ pc = "awaitFetch"
    /\ fx.request = "fetch"
    /\ fx.behaviour \in {"ok", "notOk", "stalledBody"}
    /\ LET cleared == [fx EXCEPT !.timers = @ \ {Len(fx.tried)},
                                 !.steps = @ \o <<"clearTimeout">>]
       IN  IF fx.behaviour = "notOk"
           THEN FetchGivesUp(cleared)
           ELSE /\ fx' = [cleared EXCEPT !.request = "arrayBuffer",
                                         !.steps = @ \o <<"arrayBuffer">>]
                /\ pc' = "awaitBody"
    /\ UNCHANGED <<keyIdVars, bindVars, pdataVars, extractVars, walrusVars,
                   keyDlVars, allowVars, deployVars, resolveVars, addVars>>

\* fetch rejects with a network error: the catch block
FetchRejects ==
    /\ pc = "awaitFetch"
    /\ fx.request = "fetch"
    /\ fx.behaviour = "networkError"
    /\ FetchGivesUp([fx EXCEPT !.steps = @ \o <<"catch">>])
    /\ UNCHANGED <<keyIdVars, bindVars, pdataVars, extractVars, walrusVars,
                   keyDlVars, allowVars, deployVars, resolveVars, addVars>>

\* a timer that is still pending fires: controller.abort(). The fetch that
\* is awaited with this signal rejects with AbortError, and the catch block
\* runs; a timer of a request that is over aborts nothing
TimerFires ==
    /\ \E t \in fx.timers :
        LET fired == [fx EXCEPT !.timers = @ \ {t},
                                !.steps = @ \o <<"abort">>]
        IN  IF pc = "awaitFetch" /\ fx.request = "fetch" /\ t = Len(fx.tried)
            THEN FetchGivesUp([fired EXCEPT !.steps = @ \o <<"catch">>])
            ELSE /\ fx' = fired
                 /\ pc' = pc
    /\ UNCHANGED <<keyIdVars, bindVars, pdataVars, extractVars, walrusVars,
                   keyDlVars, allowVars, deployVars, resolveVars, addVars>>

\* await response.arrayBuffer() returns the body
BodyCompletes ==
    /\ pc = "awaitBody"
    /\ fx.request = "arrayBuffer"
    /\ fx.behaviour = "ok"
    /\ FetchReturns(fx, [kind |-> "bytes"])
    /\ UNCHANGED <<keyIdVars, bindVars, pdataVars, extractVars, walrusVars,
                   keyDlVars, allowVars, deployVars, resolveVars, addVars>>

NextFetch ==
    \/ FetchRequest \/ FetchResponds \/ FetchRejects \/ TimerFires
    \/ BodyCompletes

SpecFetch == InitFetch /\ [][NextFetch]_vars

\* every step that can be taken is taken in the end: the aggregator's
\* answers arrive and the timers fire
SpecFetchFair == SpecFetch /\ WF_vars(NextFetch)

----------------------------------------------------------------------------
(* A caller of extractBlobInfo: any info a publisher's answer can hold *)

\* the alreadyCertified and newlyCreated entries of the model: two blob
\* ids, two end epochs, two Sui references
CertifiedEntries ==
    {[blobId |-> b, endEpoch |-> e, event |-> [txDigest |-> r]] :
        b \in {"blob1", "blob2"}, e \in {"epoch1", "epoch2"},
        r \in {"ref1", "ref2"}}

CreatedEntries ==
    {[blobObject |-> [blobId |-> b, id |-> r, storage |-> [endEpoch |-> e]]] :
        b \in {"blob1", "blob2"}, e \in {"epoch1", "epoch2"},
        r \in {"ref1", "ref2"}}

\* the info with each of the two keys present or not
StorageInfos ==
    {[alreadyCertified |-> a, newlyCreated |-> n] :
        a \in {Absent} \cup CertifiedEntries,
        n \in {Absent} \cup CreatedEntries}

InitExtract ==
    /\ pc = "extract"
    /\ \E storageInfo \in StorageInfos :
        xt = [NoExtract EXCEPT !.storageInfo = storageInfo]
    /\ KeyDownloadIdle
    /\ AllowIdle
    /\ DeployIdle
    /\ ResolveIdle
    /\ AddIdle
    /\ FetchIdle
    /\ KeyIdIdle
    /\ BindIdle
    /\ PDataIdle
    /\ WalrusIdle

\* const blobInfo = extractBlobInfo(storageInfo.info)
CallExtractBlobInfo ==
    /\ pc = "extract"
    /\ xt' = [xt EXCEPT !.blobInfo = extractBlobInfo(xt.storageInfo)]
    /\ pc' = "extracted"
    /\ UNCHANGED <<keyIdVars, bindVars, pdataVars, walrusVars, keyDlVars,
                 allowVars, deployVars, resolveVars, addVars, fetchVars>>

NextExtract == CallExtractBlobInfo

SpecExtract == InitExtract /\ [][NextExtract]_vars

----------------------------------------------------------------------------
(* deploy.sh *)

\* a line of a text file is the sequence of its words; the file is its
\* lines and whether its last line ends with a newline (an empty file is
\* no lines)
PackageIdLine(packageId) == <<"PACKAGE_ID=", packageId>>

EnvLines ==
    {PackageIdLine("0xold"), <<"NETWORK=", "testnet">>, <<"# public">>}

EnvFiles ==
    {[lines |-> l, eol |-> e] :
        l \in SeqsUpTo(EnvLines, MaxEnvLines) \ {<<>>}, e \in BOOLEAN}
        \cup {[lines |-> <<>>, eol |-> TRUE]}

\* the line matches ^PACKAGE_ID=
matchesPackageId(line) == Len(line) > 0 /\ line[1] = "PACKAGE_ID="

\* grep -q "^PACKAGE_ID=" "$ENV_PUBLIC_FILE"
grepPackageId(file) ==
    \E i \in 1..Len(file.lines) : matchesPackageId(file.lines[i])

\* sed -i "s|^PACKAGE_ID=.*|PACKAGE_ID=$PACKAGE_ID|": GNU sed keeps a last
\* line without newline as it is, the sed of macOS ends it with one
sedPackageId(file, packageId, osType) ==
    [lines |-> [i \in 1..Len(file.lines) |->
                    IF matchesPackageId(file.lines[i])
                    THEN PackageIdLine(packageId) ELSE file.lines[i]],
     eol |-> IF osType = "darwin" THEN TRUE ELSE file.eol]

\* echo "PACKAGE_ID=$PACKAGE_ID" >> "$ENV_PUBLIC_FILE": the bytes go after
\* the last byte of the file
appendPackageId(file, packageId) ==
    IF file.eol
    THEN [lines |-> Append(file.lines, PackageIdLine(packageId)), eol |-> TRUE]
    ELSE [lines |-> [file.lines EXCEPT ![Len(file.lines)] =
                        @ \o PackageIdLine(packageId)],
          eol |-> TRUE]

\* cat > "$ENV_PUBLIC_FILE" << EOF ... EOF
createEnvPublic(packageId) ==
    [lines |-> <<<<"# Public environment variables for seal-examples">>,
                 <<"# This file can be committed to git">>,
                 <<>>,
                 <<"# Package ID of deployed pdata contract">>,
                 <<"# Last updated: ", "date">>,
                 PackageIdLine(packageId)>>,
     eol |-> TRUE]

\* the update of ../.env.public
updateEnvPublic(file, packageId, osType) ==
    IF file # Absent
    THEN IF grepPackageId(file)
         THEN sedPackageId(file, packageId, osType)
         ELSE appendPackageId(file, packageId)
    ELSE createEnvPublic(packageId)

InitDeploy ==
    /\ pc = "deploy"
    /\ \E file \in {Absent} \cup EnvFiles, osType \in {"linux-gnu", "darwin"} :
        env = [NoDeploy EXCEPT !.file = file, !.osType = osType]
    /\ KeyDownloadIdle
    /\ AllowIdle
    /\ ResolveIdle
    /\ AddIdle
    /\ FetchIdle
    /\ ExtractIdle
    /\ KeyIdIdle
    /\ BindIdle
    /\ PDataIdle
    /\ WalrusIdle

\* DEPLOY_OUTPUT=$(sui client publish --json); if [ $? -ne 0 ]: exit 1
DeployPublish ==
    /\ pc = "deploy"
    /\ env.runs < MaxRuns
    /\ \E output \in {[kind |-> "fails"], [kind |-> "noPackageId"],
                       [kind |-> "published", packageId |-> "0xold"],
                       [kind |-> "published", packageId |-> "0xnew"]} :
        IF output.kind = "fails"
        THEN /\ env' = [env EXCEPT !.output = output, !.runs = @ + 1,
                                   !.exit = "exit1"]
             /\ pc' = "deploy"
        ELSE /\ env' = [env EXCEPT !.output = output, !.runs = @ + 1,
                                   !.exit = "running"]
             /\ pc' = "extract"
    /\ UNCHANGED <<keyIdVars, bindVars, pdataVars, extractVars, fetchVars,
                   addVars, walrusVars, keyDlVars, allowVars, resolveVars>>

\* PACKAGE_ID=$(echo "$DEPLOY_OUTPUT" | grep -o ... | head -1 | grep -o ...);
\* if [ -z "$PACKAGE_ID" ]: exit 1; the update of ../.env.public
DeployUpdateEnv ==
    /\ pc = "extract"
    /\ IF env.output.kind # "published"
       THEN env' = [env EXCEPT !.packageId = "", !.exit = "exit1"]
       ELSE env' = [env EXCEPT
                      !.packageId = env.output.packageId,
                      !.file = updateEnvPublic(env.file, env.output.packageId,
                                               env.osType),
                      !.exit = "exit0"]
    /\ pc' = "deploy"
    /\ UNCHANGED <<keyIdVars, bindVars, pdataVars, extractVars, fetchVars,
                   addVars, walrusVars, keyDlVars, allowVars, resolveVars>>

NextDeploy == DeployPublish \/ DeployUpdateEnv

SpecDeploy == InitDeploy /\ [][NextDeploy]_vars

----------------------------------------------------------------------------
(* Properties of computeKeyId, checked under SpecKeyId *)

AllHex(s) == \A i \in 1..Len(s) : IsHexChar(s[i])

\* C1: a returned key id has length len(p) + len(n), its first len(p) bytes
\* are the prefix bytes p decoded from the sender string, in order, and the
\* remaining bytes are the nonce bytes n, in order, with nothing in between.
C1_PrefixThenNonce ==
    (pc # "start" /\ ~call.err) =>
        LET p == fromHex(strip0x(sender)).bytes
            n == heap[nonceRef]
            k == heap[call.ref]
        IN  /\ Len(k) = Len(p) + Len(n)
            /\ \A i \in 1..Len(p) : k[i] = p[i]
            /\ \A j \in 1..Len(n) : k[Len(p) + j] = n[j]

\* C1 witness: "0xaB" with nonce 0a ab gives ab 0a ab.
C1_Witness ==
    /\ pc = "called"
    /\ sender = <<"0", "x", "a", "B">>
    /\ heap[nonceRef] = <<10, 171>>
    /\ ~call.err
    /\ heap[call.ref] = <<171, 10, 171>>

\* C4 (as claimed): a sender string that, after the optional 0x, has odd
\* length or holds a non-hex character makes computeKeyId throw, and no
\* key id is returned.
C4_MalformedHexThrows ==
    LET h == strip0x(sender)
    IN  (pc # "start" /\ (Len(h) % 2 = 1 \/ ~AllHex(h))) =>
            (call.err /\ call.ref = 0)

\* C8: for a hex string h, computeKeyId("0x" + h, n) and computeKeyId(h, n)
\* have the same outcome, and the returned bytes are the decoded digits of h
\* followed by n: the two prefix characters add no byte.
C8_PrefixStripped ==
    (pc = "called0x" /\ AllHex(sender)) =>
        /\ call0x.err = call.err
        /\ ~call0x.err =>
            /\ heap[call0x.ref] = heap[call.ref]
            /\ Len(heap[call0x.ref]) =
                   (Len(sender) + 1) \div 2 + Len(heap[nonceRef])

\* C8 witness: "0x" + "aB" was derived and gave ab followed by the nonce.
C8_Witness ==
    /\ pc = "called0x"
    /\ sender = <<"a", "B">>
    /\ ~call0x.err
    /\ heap[call0x.ref] = <<171>> \o heap[nonceRef]

\* C9: a call of computeKeyId leaves the sender, the nonce reference and
\* every array that existed before the call (the nonce and earlier results
\* among them) unchanged, and the array it returns is a new one: no
\* reference that existed before the call, so not the nonce.
C9_PureAndFresh ==
    [][ /\ sender' = sender
        /\ nonceRef' = nonceRef
        /\ \A r \in DOMAIN heap : r \in DOMAIN heap' /\ heap'[r] = heap[r]
        /\ (pc = "start" /\ ~call'.err) =>
               (call'.ref \in DOMAIN heap' \ DOMAIN heap /\ call'.ref # nonceRef)
        /\ (pc = "called" /\ ~call0x'.err) =>
               (call0x'.ref \in DOMAIN heap' \ DOMAIN heap
                    /\ call0x'.ref # nonceRef /\ call' = call)
      ]_vars

\* C9 witness: two calls returned, with an empty prefix and a non-empty
\* nonce, and the results are two arrays, neither of them the nonce.
C9_Witness ==
    /\ pc = "called0x"
    /\ sender = <<>>
    /\ heap[nonceRef] = <<10, 171>>
    /\ ~call.err /\ ~call0x.err
    /\ Cardinality({nonceRef, call.ref, call0x.ref}) = 3

\* C10: on every allowlist id string and nonce the inline derivation of the
\* allowlist upload and computeKeyId agree: both throw, or the inline
\* identifier is the hex of the bytes computeKeyId returns (the decoded id
\* followed by the nonce).
C10_InlineIsComputeKeyId ==
    pc = "inlined" =>
        /\ inline.err = call.err
        /\ ~inline.err =>
            /\ inline.hex = toHex(heap[call.ref])
            /\ fromHex(inline.hex) = Returned(heap[call.ref])

\* C10 witness: both derivations ran on "0xaB" with nonce 0a ab and gave
\* the identifier ab0aab.
C10_Witness ==
    /\ pc = "inlined"
    /\ sender = <<"0", "x", "a", "B">>
    /\ heap[nonceRef] = <<10, 171>>
    /\ ~call.err
    /\ inline = [err |-> FALSE, hex |-> <<"a", "b", "0", "a", "a", "b">>]

----------------------------------------------------------------------------
(* Properties of the derived identifiers, checked under SpecBind *)

Decoded(a) == fromHex(strip0x(a)).bytes

\* C5: with the same nonce, two prefixes of equal length that differ give
\* different identifiers: the policy-bound identifier (prefix: the allowlist
\* id) differs from the address-bound one (prefix: the requester's address).
C5_DistinctPrefixes ==
    (pc \in {"policy", "again"}
        /\ Len(Decoded(address)) = Len(Decoded(allowlistId))
        /\ Decoded(address) # Decoded(allowlistId)) =>
            /\ ~ids.addr.err /\ ~ids.policy.err
            /\ ids.addr.hex # ids.policy.hex
            /\ fromHex(ids.addr.hex) # fromHex(ids.policy.hex)

\* C5 witness: address 0x0aab, allowlist id 0xab0a, nonce ab: two
\* identifiers were derived.
C5_Witness ==
    /\ pc = "policy"
    /\ address = <<"0", "x", "0", "a", "a", "b">>
    /\ allowlistId = <<"0", "x", "a", "b", "0", "a">>
    /\ nonce = <<171>>
    /\ ids.addr.hex = <<"0", "a", "a", "b", "a", "b">>
    /\ ids.policy.hex = <<"a", "b", "0", "a", "a", "b">>

\* C6: with the same prefix, two nonces of equal length that differ give
\* two different identifiers of the same total length.
C6_DistinctNonces ==
    (pc = "again" /\ Len(nonce) = Len(nonce2) /\ nonce # nonce2) =>
        /\ ~ids.addr.err /\ ~ids.addr2.err
        /\ ids.addr.hex # ids.addr2.hex
        /\ fromHex(ids.addr.hex) # fromHex(ids.addr2.hex)
        /\ Len(ids.addr.hex) = Len(ids.addr2.hex)
        /\ Len(fromHex(ids.addr.hex).bytes) = Len(fromHex(ids.addr2.hex).bytes)

\* C6 witness: address 0xab with nonces 0a ab and ab 0a.
C6_Witness ==
    /\ pc = "again"
    /\ address = <<"0", "x", "a", "b">>
    /\ nonce = <<10, 171>>
    /\ nonce2 = <<171, 10>>
    /\ ids.addr.hex = <<"a", "b", "0", "a", "a", "b">>
    /\ ids.addr2.hex = <<"a", "b", "a", "b", "0", "a">>

----------------------------------------------------------------------------
(* Properties of decryptPData, checked under SpecPData *)

\* C3: the identifier in the seal_approve call of decryptPData is the stored
\* creator's address bytes followed by the stored nonce, whatever identifier
\* the stored data carries; so when the record stores the address and nonce
\* the data was encrypted with, it is the identifier of the encryption.
C3_ApproveIdRecomputed ==
    (pd.tx # <<>>) =>
        /\ pd.tx.id = Decoded(object.creator) \o object.nonce
        /\ pd.keyId = pd.tx.id
        /\ (pd.txBytes # <<>>) => pd.txBytes.id = pd.tx.id
        /\ (object.creator = object.encryptedWith.address
                /\ object.nonce = object.encryptedWith.nonce) =>
               /\ pd.tx.id = object.data.id
               /\ pd.encryptionId =
                      addressEncryptionId(object.encryptedWith.address,
                                          object.encryptedWith.nonce).hex

\* C3 witness: the record stores the address and nonce of the encryption
\* and the plaintext was decrypted.
C3_Witness ==
    /\ pc = "exited"
    /\ pd.exit = "exit0"
    /\ object.creator = <<"0", "x", "a", "b", "0", "a">>
    /\ object.nonce = <<10, 171>>
    /\ pd.txBytes.id = <<171, 10, 10, 171>>
    /\ pd.decryptedData = <<10>>

----------------------------------------------------------------------------
(* Properties of upload and download, checked under SpecWalrus *)

\* C2: when the download has extracted the identifier from the blob the
\* upload stored under identifier hex string I, the extracted bytes are the
\* decoded bytes of I (the address bytes followed by the nonce), and they
\* are the identifier argument of seal_approve; likewise for the blob of
\* the allowlist upload and its policy-bound identifier.
C2_RoundTrip ==
    (dl.tx # Absent) =>
        /\ dl.tx.id = dl.keyId
        /\ (dl.txBytes # Absent) => dl.txBytes.id = dl.keyId
        /\ (dl.encryptedData = up.encryptedData) =>
               /\ Returned(dl.keyId) = fromHex(up.encryptionId)
               /\ dl.keyId = Decoded(address) \o up.nonce
        /\ (dl.encryptedData = PolicyBlob) =>
               dl.keyId = [i \in 1..MaxAddrBytes + NONCE_LENGTH |->
                              IF i <= MaxAddrBytes THEN 171 ELSE 10]

\* C2 witness: the upload of address 0xab0a with nonce 0a ab 0a ab 0a was
\* downloaded, parsed to bytes, and decrypted with that identifier.
C2_Witness ==
    /\ dl.exit = "exit0"
    /\ dl.encryptedData = up.encryptedData
    /\ dl.parsedId.type = "object"
    /\ up.encryptionId =
           <<"a", "b", "0", "a", "0", "a", "a", "b", "0", "a", "a", "b", "0", "a">>
    /\ dl.txBytes.id = <<171, 10, 10, 171, 10, 171, 10>>

----------------------------------------------------------------------------
(* Properties of the failure paths of the download, checked under SpecWalrus *)

\* the log of steps holds the step
Did(log, step) == \E i \in 1..Len(log) : log[i] = step

\* C11: when the downloaded bytes are not a well-formed encrypted object,
\* the extraction in downloadAndDecrypt fails: the run ends with an error
\* and exit status 1, no seal_approve transaction is built,
\* sealClient.decrypt is not called and no decrypted file is written.
C11_MalformedBlobStops ==
    (dl.encryptedData # Absent /\ dl.encryptedData.kind # "EncryptedObject") =>
        /\ pc = "shell"
        /\ dl.exit = "exit1"
        /\ dl.steps[Len(dl.steps) - 1] = "EncryptedObject.parse"
        /\ dl.parsedId = Absent /\ dl.keyId = <<>>
        /\ dl.tx = Absent /\ dl.txBytes = Absent
        /\ ~Did(dl.steps, "moveCall") /\ ~Did(dl.steps, "tx.build")
        /\ ~Did(dl.steps, "sealClient.decrypt")
        /\ ~Did(dl.steps, "writeFileSync")
        /\ dl.decryptedData = <<>>
        /\ files.decrypted \in {Absent, StaleFile}

\* C11 witness: the aggregator served a blob that is no encrypted object
\* and the run ended at the parse.
C11_Witness ==
    /\ dl.encryptedData = Garbage
    /\ dl.exit = "exit1"
    /\ dl.steps = <<"blobId", "SessionKey.create", "fetch",
                    "EncryptedObject.parse", "console.error">>

\* every aggregator of the list was contacted and none answered OK with a
\* readable body
AllAggregatorsFailed ==
    /\ kd.contacted # <<>>
    /\ Len(kd.contacted) = Len(kd.aggregators)
    /\ \A i \in 1..Len(kd.answers) : kd.answers[i] # "ok"

\* C12: an unavailable blob is a normal failure. downloadBlobFromWalrus
\* does not throw: on a non-OK status, a network error or the abort of the
\* timer it returns null, and the caller reports "Cannot retrieve file from
\* Walrus aggregators ... may have been deleted" and exits with status 1,
\* having parsed, decrypted and written nothing; likewise the encrypted-key
\* download when every aggregator failed.
C12_UnavailableIsNormalFailure ==
    /\ (dl.fetch # Absent /\ dl.fetch.kind # "ok") =>
           /\ pc = "shell"
           /\ dl.exit = "exit1"
           /\ dl.error = CannotRetrieve
           /\ dl.steps[Len(dl.steps) - 1] = "fetch"
           /\ dl.encryptedData = Absent /\ dl.parsedId = Absent
           /\ dl.tx = Absent /\ dl.decryptedData = <<>>
           /\ ~Did(dl.steps, "EncryptedObject.parse")
           /\ ~Did(dl.steps, "sealClient.decrypt")
           /\ ~Did(dl.steps, "writeFileSync")
           /\ files.decrypted \in {Absent, StaleFile}
    /\ AllAggregatorsFailed =>
           /\ pc = "shell"
           /\ kd.exit = "exit1"
           /\ kd.error = CannotRetrieve
           /\ kd.downloadResult = Absent
           /\ ~Did(kd.steps, "writeFileSync")
           /\ files.encrypted = Absent

\* C12 witness: the fetch of the download was aborted by the timer and the
\* run ended with the cannot-retrieve error.
C12_Witness ==
    /\ dl.fetch = [kind |-> "timeoutAbort"]
    /\ dl.exit = "exit1"
    /\ dl.error = CannotRetrieve
    /\ dl.steps = <<"blobId", "SessionKey.create", "fetch", "console.error">>

\* C20: downloadBlobFromWalrus of the encrypted-key download contacts the
\* aggregators in list order; it returns the body of the first one that
\* answers OK and contacts none after it; after a non-OK status or a thrown
\* error it goes on with the next one; it returns null exactly when every
\* aggregator of the list failed.
C20_AggregatorsInOrder ==
    LET n == Len(kd.contacted)
    IN  /\ n <= Len(kd.aggregators)
        /\ Len(kd.answers) = n
        /\ kd.contacted = SubSeq(kd.aggregators, 1, n)
        /\ \A i \in 1..n - 1 : kd.answers[i] # "ok"
        /\ (n > 0 /\ kd.answers[n] = "ok") =>
               /\ kd.downloadResult = kd.blobId
               /\ kd.exit = "exit0"
               /\ files.encrypted = kd.blobId
        /\ (n > 0 /\ kd.answers[n] # "ok" /\ n < Len(kd.aggregators)) =>
               /\ pc = "fetchKey"
               /\ kd.exit = "running"
        /\ (n > 0 /\ kd.exit = "exit1") <=> AllAggregatorsFailed
        /\ kd.downloadResult = Absent <=>
               (kd.exit \in {"notRun", "running", "exit1"})

\* C20 witness: of two aggregators the first answered with a status that is
\* not OK, the second served the blob, and the blob was saved.
C20_Witness ==
    /\ kd.aggregators = <<1, 2>>
    /\ kd.contacted = <<1, 2>>
    /\ kd.answers = <<"notOk", "ok">>
    /\ kd.downloadResult = kd.blobId
    /\ files.encrypted = kd.blobId
    /\ kd.exit = "exit0"

\* C16: decryption yields the plaintext or an error. When
\* sealClient.decrypt throws (NoAccessError or another error) the error
\* that ends the run is that same error, the decrypted file is neither
\* created nor changed, and the exit status is 1; the decrypted file is
\* written only by the step in which decrypt returned, and then holds the
\* hex encoding of exactly the returned plaintext.
C16_PlaintextOrDenied ==
    [][ /\ pc = "decrypt2" =>
             \/ /\ dl'.exit = "exit0"
                /\ dl'.thrown = "" /\ dl'.error = ""
                /\ dl'.decryptedData = dl.encryptedData.data
                /\ files'.decrypted # Absent
                /\ files'.decrypted.content = toHex(dl'.decryptedData)
                /\ fromHex(files'.decrypted.content) =
                       Returned(dl'.decryptedData)
             \/ /\ dl'.exit = "exit1"
                /\ dl'.thrown \in DecryptErrors
                /\ dl'.error = dl'.thrown
                /\ dl'.decryptedData = <<>>
                /\ files' = files
        /\ files'.decrypted # files.decrypted =>
             (pc = "decrypt2" /\ dl'.exit = "exit0")
      ]_vars

\* C16 witness: decrypt threw NoAccessError, the run ended with it and
\* exit status 1, and the file of an earlier run is as it was.
C16_Witness ==
    /\ dl.thrown = "NoAccessError"
    /\ dl.error = "NoAccessError"
    /\ dl.exit = "exit1"
    /\ files.decrypted = StaleFile

----------------------------------------------------------------------------
(* Properties of the resolution of the id, checked under SpecResolve *)

\* the sources of the list that come before the first one that is not
\* empty, and that one
ConsultedUpToFirst(values, names) ==
    LET first == IF \E i \in 1..Len(values) : ~Falsy(values[i])
                 THEN CHOOSE i \in 1..Len(values) :
                        /\ ~Falsy(values[i])
                        /\ \A j \in 1..i - 1 : Falsy(values[j])
                 ELSE Len(values)
    IN  SubSeq(names, 1, first)

\* the first value of the list that is not empty; Absent when all are
FirstNonEmpty(values) ==
    IF \E i \in 1..Len(values) : ~Falsy(values[i])
    THEN values[CHOOSE i \in 1..Len(values) :
                    /\ ~Falsy(values[i])
                    /\ \A j \in 1..i - 1 : Falsy(values[j])]
    ELSE Absent

\* the blobId upload_results.json gives, Absent when it gives none
FileBlobId ==
    IF rs.uploadResults \in {Absent, CorruptFile} THEN Absent
    ELSE rs.uploadResults.blobId

\* C15 (as claimed): the id is resolved by an ordered chain of sources
\* (decrypt script: argument, OBJECT_ID, prompt; download script: argument,
\* blobId of upload_results.json, prompt); the first non-empty result wins,
\* a later source is consulted exactly when every earlier one is empty, and
\* the process exits with status 1 at the resolution only when all sources
\* are empty.
C15_FirstNonEmptyWins ==
    pc = "resolved" =>
        LET objectSources == <<rs.argv, rs.envObjectId, rs.input>>
            blobSources == <<rs.argv, FileBlobId, rs.input>>
        IN  /\ rs.objectId.consulted =
                   ConsultedUpToFirst(objectSources, <<"argv", "env", "prompt">>)
            /\ rs.objectId.exit = "exit1" <=>
                   FirstNonEmpty(objectSources) = Absent
            /\ rs.objectId.exit # "exit1" =>
                   rs.objectId.value = FirstNonEmpty(objectSources)
            /\ rs.blobId.consulted =
                   ConsultedUpToFirst(blobSources, <<"argv", "file", "prompt">>)
            /\ rs.blobId.exit = "exit1" <=>
                   FirstNonEmpty(blobSources) = Absent
            /\ rs.blobId.exit # "exit1" =>
                   rs.blobId.value = FirstNonEmpty(blobSources)

----------------------------------------------------------------------------
(* Properties of deploy.sh, checked under SpecDeploy *)

\* C19 (as claimed): after a successful run ../.env.public contains the
\* line PACKAGE_ID=<new package id>; an existing PACKAGE_ID line is
\* replaced in place and not duplicated, a missing line is appended, a
\* missing file is created, every other line of an existing file is left
\* unchanged, and a further run with the same package id leaves the file
\* unchanged.
C19_EnvPublicUpdated ==
    [][ (pc = "extract" /\ env'.exit = "exit0") =>
            LET old == env.file
                new == env'.file
                line == PackageIdLine(env'.packageId)
            IN  /\ new # Absent
                /\ \E i \in 1..Len(new.lines) : new.lines[i] = line
                /\ \A i \in 1..Len(new.lines) :
                       matchesPackageId(new.lines[i]) => new.lines[i] = line
                /\ (old # Absent /\ grepPackageId(old)) =>
                       /\ Len(new.lines) = Len(old.lines)
                       /\ \A i \in 1..Len(old.lines) :
                              new.lines[i] =
                                  IF matchesPackageId(old.lines[i])
                                  THEN line ELSE old.lines[i]
                /\ (old # Absent /\ ~grepPackageId(old)) =>
                       new.lines = Append(old.lines, line)
                /\ updateEnvPublic(new, env'.packageId, env.osType) = new
      ]_vars

----------------------------------------------------------------------------
(* Properties of the allowlist upload, checked under SpecAllowlist *)

\* C14: with several Caps the allowlist lookups run concurrently and the
\* prompt is shown only when every lookup has settled; in whatever order
\* they settle, the i-th choice shown describes allCaps[i], a lookup that
\* fails gives the placeholder (name N/A, 0 members) and the others go on,
\* and the answer k selects allCaps[k - 1] (the k-th Cap).
C14_ChoicesMatchCaps ==
    /\ al.pending # {} =>
           /\ pc = "lookups"
           /\ al.shown = <<>>
           /\ al.exit = "running"
           /\ ~Did(al.steps, "prompt")
    /\ al.shown # <<>> =>
           /\ al.pending = {}
           /\ Len(al.settled) = Len(al.allCaps)
           /\ Len(al.shown) = Len(al.allCaps)
           /\ \A i \in 1..Len(al.allCaps) :
                  LET id == al.allCaps[i].allowlist_id
                  IN  /\ al.shown[i].cap = al.allCaps[i]
                      /\ IF id \in chain.failing
                         THEN /\ al.shown[i].allowlistName = "N/A"
                              /\ al.shown[i].memberCount = 0
                         ELSE /\ al.shown[i].allowlistName = AllowlistAt(id).name
                              /\ al.shown[i].memberCount = Len(AllowlistAt(id).list)
    /\ (al.input # Absent /\ al.selectedCap # Absent) =>
           LET k == parseInt(al.input.text).value
           IN  /\ k \in 1..Len(al.allCaps)
               /\ al.selectedCap = al.allCaps[k]
               /\ al.tx # Absent =>
                      /\ al.tx.capId = al.allCaps[k].id
                      /\ al.tx.allowlistId = al.allCaps[k].allowlist_id

\* C14 witness: three lookups settled in the order 3, 1, 2, the first
\* Cap's lookup failed, and the answer 2 selected the second Cap.
C14_Witness ==
    /\ al.settled = <<3, 1, 2>>
    /\ chain.failing = {CapAt(1).allowlist_id}
    /\ al.shown # <<>>
    /\ al.shown[1].allowlistName = "N/A"
    /\ al.shown[3].cap = CapAt(3)
    /\ al.input = [text |-> <<"2">>]
    /\ al.selectedCap = CapAt(2)

\* step a is in the log, before step b
Before(log, a, b) ==
    \E i, j \in 1..Len(log) : i < j /\ log[i] = a /\ log[j] = b

\* C17 (as claimed): the allowlist upload makes its network calls in the
\* sequence encrypt, store, publish: the PUT starts only after encryption
\* returned; the allowlist::publish transaction is submitted only after the
\* store answered 200 and a blob id was extracted, and carries exactly that
\* blob id; upload_secret_key_results.json is written only after the
\* publish transaction succeeded.
C17_EncryptStorePublish ==
    /\ Did(al.steps, "storeBlob") =>
           /\ al.encryptedData # Absent
           /\ Before(al.steps, "sealClient.encrypt", "storeBlob")
    /\ al.tx # Absent =>
           /\ Before(al.steps, "storeBlob", "extractBlobInfo")
           /\ al.blobInfo # Absent
           /\ al.blobInfo.blobId = al.encryptedData
           /\ al.encryptedData \in walrus
           /\ al.tx.blobId = al.blobInfo.blobId
    /\ Did(al.steps, "signAndExecuteTransaction") =>
           /\ al.tx # Absent
           /\ Before(al.steps, "extractBlobInfo", "signAndExecuteTransaction")
    /\ files.secretKeyResults # Absent =>
           /\ Before(al.steps, "signAndExecuteTransaction", "writeFileSync")
           /\ files.secretKeyResults.blobId = al.tx.blobId
           /\ al.result.status = "success"
           /\ al.tx \in chain.published

\* a step of the allowlist upload threw and main().catch took it
StepThrew == al.error # ""

\* the publish transaction was executed and failed on chain
PublishFailed == al.result # Absent /\ al.result.status = "failure"

\* the last thing the run did was to print the failure
Reported(log) ==
    Len(log) > 0 /\ log[Len(log)] \in {"console.error", "console.log"}

\* no step of the run was executed a second time
NoStepTwice(log) ==
    \A i, j \in 1..Len(log) : log[i] = log[j] => i = j

\* C13 (as claimed): when a step of the allowlist upload fails (hex
\* decoding, encryption, upload, extraction, publish), the run aborts: the
\* failed step is not retried, no later step executes, the failure is
\* reported to the operator and the process ends with exit status 1.
C13_FailureAborts ==
    /\ NoStepTwice(al.steps)
    /\ StepThrew =>
           /\ pc = "exited"
           /\ al.exit = "exit1"
           /\ Reported(al.steps)
           /\ files.secretKeyResults = Absent
    /\ PublishFailed =>
           /\ al.exit = "exit1"
           /\ Reported(al.steps)
           /\ ~Did(al.steps, "writeFileSync")
           /\ files.secretKeyResults = Absent

----------------------------------------------------------------------------
(* Properties of the two uploads, checked under SpecUpload *)

\* the identifier of the address-bound upload, once derived: the hex of
\* the address bytes followed by the 5-byte nonce, printed, passed to
\* encrypt, embedded in the encrypted object and written to the results
\* (a results file of an earlier run stays until this run overwrites it)
UploadIdIsOne ==
    up.nonce # <<>> =>
        /\ Len(up.nonce) = NONCE_LENGTH
        /\ up.encryptionId = toHex(Decoded(address) \o up.nonce)
        /\ up.printed = up.encryptionId
        /\ up.encryptCall.id = up.encryptionId
        /\ up.encryptedData # Absent =>
               up.encryptedData.id = Decoded(address) \o up.nonce
        /\ up.exit = "exit0" =>
               /\ files.uploadResults # Absent
               /\ files.uploadResults.encryptionId = up.encryptCall.id

\* the same for the policy-bound upload and the selected allowlist's id
AllowIdIsOne ==
    al.nonce # <<>> =>
        /\ Len(al.nonce) = NONCE_LENGTH
        /\ al.encryptionId =
               toHex(Decoded(al.selectedCap.allowlist_id) \o al.nonce)
        /\ al.printed = al.encryptionId
        /\ al.encryptCall.id = al.encryptionId
        /\ al.encryptedData # Absent =>
               al.encryptedData.id =
                   Decoded(al.selectedCap.allowlist_id) \o al.nonce
        /\ files.secretKeyResults # Absent =>
               files.secretKeyResults.encryptionId = al.encryptCall.id

\* a step of a run leaves a nonce and an identifier it has created alone
IdNeverReassigned ==
    /\ up.nonce # <<>> =>
           (up'.nonce = up.nonce /\ up'.encryptionId = up.encryptionId)
    /\ al.nonce # <<>> =>
           (al'.nonce = al.nonce /\ al'.encryptionId = al.encryptionId)

\* C18: in one upload run the nonce and the identifier are created once
\* and no later step changes them; the encryptionId written to the results
\* file and printed is the value passed as id to sealClient.encrypt: the
\* hex of the prefix bytes followed by the 5-byte nonce of the run.
C18_IdCreatedOnce ==
    /\ [](UploadIdIsOne /\ AllowIdIsOne)
    /\ [][IdNeverReassigned]_vars

\* C18 witness: the address-bound upload of 0xab0a with nonce
\* 0a ab 0a ab 0a wrote its results with the identifier it encrypted under.
C18_Witness ==
    /\ up.exit = "exit0"
    /\ address = <<"0", "x", "a", "b", "0", "a">>
    /\ up.nonce = <<10, 171, 10, 171, 10>>
    /\ up.encryptedData.id = <<171, 10, 10, 171, 10, 171, 10>>
    /\ files.uploadResults.encryptionId =
           <<"a", "b", "0", "a", "0", "a", "a", "b", "0", "a", "a", "b", "0", "a">>

----------------------------------------------------------------------------
(* Cap selection of the allowlist upload, checked under SpecAllowlist *)

\* the text is a decimal numeral: one digit or more and nothing else
IsNumeral(text) ==
    /\ Len(text) > 0
    /\ \A i \in 1..Len(text) : IsDigit(text[i])

\* none of encrypt, upload and publish has been started
NothingSent ==
    /\ al.encryptCall = Absent
    /\ al.encryptedData = Absent
    /\ al.tx = Absent
    /\ walrus = {}
    /\ chain.published = {}
    /\ files.secretKeyResults = Absent

\* getAllCaps has returned the list of Caps
CapsLoaded == Did(al.steps, "getAllCaps") /\ al.error # "getOwnedObjects"

\* C21 (as claimed): with zero Caps the script exits 1 before encrypting,
\* uploading or submitting a transaction; with exactly one Cap it is
\* selected without a prompt; with n > 1 Caps the operator's input is
\* accepted only if it denotes a number between 1 and n, otherwise the
\* script exits 1 without any upload or transaction; in every accepted case
\* allowlistId and capId both come from the same selected Cap.
C21_CapSelection ==
    /\ (CapsLoaded /\ Len(al.allCaps) = 0) =>
           /\ al.exit = "exit1"
           /\ al.selectedCap = Absent
           /\ NothingSent
    /\ (CapsLoaded /\ Len(al.allCaps) = 1) =>
           /\ al.selectedCap = al.allCaps[1]
           /\ al.input = Absent
           /\ ~Did(al.steps, "prompt")
    /\ al.input # Absent =>
           /\ Len(al.allCaps) > 1
           /\ IF al.selectedCap # Absent
              THEN /\ IsNumeral(al.input.text)
                   /\ parseInt(al.input.text).value \in 1..Len(al.allCaps)
              ELSE /\ al.exit = "exit1"
                   /\ NothingSent
    /\ al.selectedCap # Absent =>
           /\ \E i \in 1..Len(al.allCaps) : al.selectedCap = al.allCaps[i]
           /\ al.encryptCall.id =
                  toHex(Decoded(al.selectedCap.allowlist_id) \o al.nonce)
           /\ al.tx # Absent =>
                  /\ al.tx.allowlistId = al.selectedCap.allowlist_id
                  /\ al.tx.capId = al.selectedCap.id

----------------------------------------------------------------------------
(* Properties of the add-address script, checked under SpecAdd *)

\* the text is a Sui address: the digits of SUI_ADDRESS_LENGTH bytes in
\* hex, with or without the 0x prefix
IsSuiAddress(text) ==
    LET digits == IF Len(text) >= 2 /\ text[1] = "0" /\ text[2] \in {"x", "X"}
                  THEN SubSeq(text, 3, Len(text))
                  ELSE text
    IN  /\ Len(digits) = 2 * SUI_ADDRESS_LENGTH
        /\ AllHex(digits)

\* the address main was given, on the command line or at the prompt
GivenAddress ==
    IF ad.argv # Absent THEN ad.argv.text
    ELSE IF ad.input # Absent THEN ad.input.text
    ELSE <<>>

\* main has read the address
AddressRead == ad.argv # Absent \/ ad.input # Absent

\* C22: the add-address workflow never submits an allowlist::add
\* transaction for an invalid address: main validates the trimmed address
\* before any Cap lookup or network call and exits 1 when it is not a Sui
\* address; addAddressToAllowlist itself throws for an empty or invalid
\* address before it builds the transaction; the address in the
\* transaction and in the saved record is the trimmed one.
C22_NoInvalidAdd ==
    /\ (AddressRead /\ ~IsSuiAddress(trim(GivenAddress))) =>
           /\ pc = "exited"
           /\ ad.exit = "exit1"
           /\ ~Did(ad.steps, "getAllCaps")
           /\ ~Did(ad.steps, "getAllowlistInfo")
           /\ ~Did(ad.steps, "addAddressToAllowlist")
           /\ ad.tx = Absent
           /\ ad.result = Absent
    /\ Did(ad.steps, "getAllCaps") =>
           Before(ad.steps, "isValidSuiAddress", "getAllCaps")
    /\ ad.tx # Absent =>
           /\ IsSuiAddress(ad.tx.address)
           /\ ad.tx.address = trim(GivenAddress)
           /\ ad.tx.target = "allowlist::add"
    /\ ad.result # Absent =>
           LET saved == files.addAddressResults.items
           IN  saved[Len(saved)].addressAdded = trim(GivenAddress)
    /\ ad.called # Absent =>
           LET text == trim(ad.called.address)
           IN  IF IsSuiAddress(text)
               THEN /\ ~ad.called.outcome.threw
                    /\ ad.called.outcome.tx.address = text
               ELSE /\ ad.called.outcome.threw
                    /\ ad.called.outcome.tx = Absent

\* C22 witness: main was given an address one byte too long on the command
\* line and exited with status 1 at the validation, before any Cap lookup.
C22_Witness ==
    /\ ad.argv = [text |-> GoodAddress \o <<"a", "b">>]
    /\ ad.exit = "exit1"
    /\ ad.steps = <<"isValidSuiAddress", "console.error">>
    /\ ad.tx = Absent

\* the record of this run of the add-address script
ThisAddInfo ==
    [allowlistId |-> ad.selectedCap.allowlist_id,
     capId |-> ad.selectedCap.id,
     addressAdded |-> ad.trimmedAddress.text]

\* what add_address_results.json held before the run, as a list of records
PreviousRecords ==
    IF ad.existing = Absent \/ ad.existing.kind = "unparsable" THEN <<>>
    ELSE ad.existing.items

\* the add transaction threw or was executed and failed in this step
AddFailedNow ==
    \/ ad.error = "" /\ ad'.error # ""
    \/ ad.result = Absent /\ ad'.result # Absent /\ ad'.result.status = "failure"

\* a step in which the add transaction fails leaves the results file alone
FailedAddKeepsFile ==
    AddFailedNow => files'.addAddressResults = files.addAddressResults

\* after a run whose add transaction succeeded the file is an array: the
\* previous records in their order, then the record of this run
SavedAfterSuccess ==
    (ad.result # Absent /\ ad.result.status = "success") =>
        /\ ad.exit = "exit0"
        /\ files.addAddressResults.kind = "json"
        /\ files.addAddressResults.array
        /\ files.addAddressResults.items = Append(PreviousRecords, ThisAddInfo)
        /\ (ad.existing # Absent /\ ad.existing.kind = "json"
                /\ ~ad.existing.array) => Len(PreviousRecords) = 1

\* C23 (as claimed): after a successful add-address run
\* add_address_results.json is a JSON array whose last element is the
\* record of this run and whose earlier elements are the previous contents
\* in their original order (a previous value that is not an array becomes
\* the single first element, unparsable contents are discarded); no record
\* is appended when the add transaction failed.
C23_ResultsAppended ==
    /\ []SavedAfterSuccess
    /\ [][FailedAddKeepsFile]_vars

----------------------------------------------------------------------------
(* Properties of an upload followed by a download, checked under SpecWalrus *)

\* the download-and-decrypt script ran after a successful upload
DownloadAfterUpload == up.exit = "exit0" /\ dl.exit # "notRun"

\* C24: after a successful run of the address-bound upload, a run of the
\* download-and-decrypt script without a command-line argument resolves,
\* without prompting, exactly the blobId of that upload from
\* upload_results.json, whatever the file held before the upload; a
\* command-line argument, when present, takes precedence over the stored
\* value.
C24_DownloadFindsUpload ==
    /\ (DownloadAfterUpload /\ dl.argv = Absent) =>
           /\ dl.from = "file"
           /\ dl.blobId = up.blobInfo.blobId
           /\ dl.blobId = files.uploadResults.blobId
           /\ dl.blobId = up.encryptedData
           /\ dl.error # "no blob id"
    /\ (dl.exit # "notRun" /\ dl.argv # Absent) =>
           /\ dl.from # "file"
           /\ dl.blobId \in {Absent, dl.argv}
           /\ dl.blobId = Absent => dl.exit = "exit1"

\* C24 witness: the download ran without an argument after the upload,
\* resolved the blob id of the upload from the file (not the one an earlier
\* upload had left there) and fetched the blob the upload stored.
C24_Witness ==
    /\ DownloadAfterUpload
    /\ dl.argv = Absent
    /\ dl.from = "file"
    /\ dl.blobId = up.blobInfo.blobId
    /\ dl.blobId # StaleResults.blobId
    /\ files.decrypted = Absent
    /\ dl.exit = "running"
    /\ dl.encryptedData = up.encryptedData

----------------------------------------------------------------------------
(* Properties of downloadBlobFromWalrus, checked under SpecFetchFair *)

\* downloadBlobFromWalrus has returned the bytes or null
FetchReturned == fx.returned # Absent

\* C25 (as claimed): every blob download attempt terminates: each request
\* is aborted by the 10-second timer if it has not completed, so
\* downloadBlobFromWalrus always eventually returns the blob bytes or null,
\* also when the aggregator sends the response headers and never finishes
\* the body, and no abort timer is pending once the function has returned.
C25_DownloadTerminates ==
    /\ <>FetchReturned
    /\ [](FetchReturned => fx.timers = {})

----------------------------------------------------------------------------
(* Properties of extractBlobInfo, checked under SpecExtract *)

\* C26: extractBlobInfo returns the blob id, end epoch and Sui reference of
\* the alreadyCertified entry when that key is present (also when
\* newlyCreated is present too), those of the newlyCreated blob object when
\* only that key is present, and throws 'Unhandled successful response!'
\* when neither is present; no result has fields of both entries.
C26_ExtractBlobInfo ==
    pc = "extracted" =>
        LET certified == xt.storageInfo.alreadyCertified
            created == xt.storageInfo.newlyCreated
            blobInfo == xt.blobInfo
        IN  IF certified # Absent
            THEN /\ ~blobInfo.threw
                 /\ blobInfo.blobId = certified.blobId
                 /\ blobInfo.endEpoch = certified.endEpoch
                 /\ blobInfo.suiRef = certified.event.txDigest
                 /\ blobInfo.status = "Already certified"
            ELSE IF created # Absent
            THEN /\ ~blobInfo.threw
                 /\ blobInfo.blobId = created.blobObject.blobId
                 /\ blobInfo.endEpoch = created.blobObject.storage.endEpoch
                 /\ blobInfo.suiRef = created.blobObject.id
                 /\ blobInfo.status = "Newly created"
            ELSE /\ blobInfo.threw
                 /\ blobInfo.error = "Unhandled successful response!"

\* C26 witness: both keys are present, with a different blob id, end epoch
\* and reference each, and the result is the alreadyCertified one.
C26_Witness ==
    /\ pc = "extracted"
    /\ xt.storageInfo.alreadyCertified =
           [blobId |-> "blob1", endEpoch |-> "epoch1",
            event |-> [txDigest |-> "ref1"]]
    /\ xt.storageInfo.newlyCreated =
           [blobObject |-> [blobId |-> "blob2", id |-> "ref2",
                            storage |-> [endEpoch |-> "epoch2"]]]
    /\ xt.blobInfo.blobId = "blob1"
    /\ xt.blobInfo.endEpoch = "epoch1"
    /\ xt.blobInfo.suiRef = "ref1"

----------------------------------------------------------------------------
(* Properties of storeBlob in the two uploads, checked under SpecUpload *)

\* the publisher answered the PUT with a status that is not 200
UploadRefused == up.response # Absent /\ up.response.status # 200

AllowUploadRefused == al.response # Absent /\ al.response.status # 200

\* C27: storeBlob succeeds only on HTTP status exactly 200: for any other
\* status it throws, and then no blob id is extracted, no
\* allowlist::publish transaction is submitted and no results file is
\* written or modified by that run.
C27_StoreOnly200 ==
    /\ up.blobInfo # Absent => up.response.status = 200
    /\ al.blobInfo # Absent => al.response.status = 200
    /\ UploadRefused =>
           /\ up.exit = "exit1"
           /\ up.blobInfo = Absent
           /\ files.uploadResults \in {Absent, StaleResults}
    /\ AllowUploadRefused =>
           /\ pc = "exited"
           /\ al.exit = "exit1"
           /\ al.error = "Failed to upload blob"
           /\ al.blobInfo = Absent
           /\ al.tx = Absent
           /\ ~Did(al.steps, "extractBlobInfo")
           /\ ~Did(al.steps, "signAndExecuteTransaction")
           /\ ~Did(al.steps, "writeFileSync")
           /\ chain.published = {}
           /\ files.secretKeyResults = Absent

\* C27 witness: the publisher answered the PUT of the allowlist upload with
\* 201, and the run ended with exit status 1 at storeBlob.
C27_Witness ==
    /\ al.response = [status |-> 201]
    /\ al.exit = "exit1"
    /\ al.encryptedData # Absent
    /\ al.tx = Absent

=============================================================================
